---- MODULE Spec2Model ----
(***************************************************************************)
(* Directional navigation planner of agent/prompts/phase_6.py:             *)
(* stuck detection and recovery, priority resolution, movement             *)
(* amplification, zig-zag fallback and the phase controller.               *)
(*                                                                         *)
(* Python strings that the code inspects character by character (priority  *)
(* tokens, direction names) are sequences of one-character strings.        *)
(* Moves ("UP", "A", ...) and location names are atoms.  None and the      *)
(* empty list/dict/string are the empty sequence << >>.                    *)
(***************************************************************************)
EXTENDS Integers, Sequences, FiniteSets, TLC

VARIABLES
    _LAST_MAP_STATE,     \* phase_6.py:22  fingerprint of the previous planning call
    _STUCK_COUNTER,      \* phase_6.py:23  consecutive-no-progress counter
    _LAST_PRIORITY_USED, \* phase_6.py:24
    _MOVEMENT_HISTORY,   \* phase_6.py:27  rolling window of recent moves
    _CURRENT_PHASE,      \* phase_6.py:28
    _PHASE_MOVE_COUNT,   \* phase_6.py:29
    call,                \* what the last operation was given, saw and returned
    ncalls               \* number of operations performed so far

vars == << _LAST_MAP_STATE, _STUCK_COUNTER, _LAST_PRIORITY_USED, _MOVEMENT_HISTORY,
           _CURRENT_PHASE, _PHASE_MOVE_COUNT, call, ncalls >>

None == << >>

-----------------------------------------------------------------------------
(* Bounds of the model *)

\* operations per behaviour of Spec; SpecLong counts its operations up to this
MaxCalls == 2

-----------------------------------------------------------------------------
(* Direction names and priority tokens *)

NORTH == <<"N", "O", "R", "T", "H">>
SOUTH == <<"S", "O", "U", "T", "H">>
EAST == <<"E", "A", "S", "T">>
WEST == <<"W", "E", "S", "T">>
NORTHEAST == NORTH \o EAST
NORTHWEST == NORTH \o WEST
SOUTHEAST == SOUTH \o EAST
SOUTHWEST == SOUTH \o WEST

\* keys of DIRECTION_FILTERS / DIRECTION_SCORING
DirectionNames ==
    {NORTH, SOUTH, EAST, WEST, NORTHEAST, NORTHWEST, SOUTHEAST, SOUTHWEST}

\* DIRECTION_FILTERS asking for one unit of progress instead of two
DIRECTION_FILTERS_one_unit(direction, px, py, tx, ty) ==
    CASE direction = NORTH -> ty >= py + 1
      [] direction = SOUTH -> ty <= py - 1
      [] direction = EAST -> tx >= px + 1
      [] direction = WEST -> tx <= px - 1
      [] direction = NORTHEAST -> tx > px /\ (ty >= py + 1 \/ tx >= px + 1)
      [] direction = NORTHWEST -> tx < px /\ (ty >= py + 1 \/ tx <= px - 1)
      [] direction = SOUTHEAST -> tx > px /\ (ty <= py - 1 \/ tx >= px + 1)
      [] direction = SOUTHWEST -> tx < px /\ (ty <= py - 1 \/ tx <= px - 1)

DIRECTION_FILTERS(direction, px, py, tx, ty) ==
    CASE direction = NORTH -> ty >= py + 2
      [] direction = SOUTH -> ty <= py - 2
      [] direction = EAST -> tx >= px + 2
      [] direction = WEST -> tx <= px - 2
      [] direction = NORTHEAST -> tx > px /\ (ty >= py + 2 \/ tx >= px + 2)
      [] direction = NORTHWEST -> tx < px /\ (ty >= py + 2 \/ tx <= px - 2)
      [] direction = SOUTHEAST -> tx > px /\ (ty <= py - 2 \/ tx >= px + 2)
      [] direction = SOUTHWEST -> tx < px /\ (ty <= py - 2 \/ tx <= px - 2)

Abs(n) == IF n < 0 THEN -n ELSE n

\* DIRECTION_SCORING with 10000 per unit of progress
DIRECTION_SCORING_light_progress(direction, px, py, tx, ty) ==
    CASE direction = NORTH -> ((ty - py) * 10000) - (Abs(tx - px) * 1000)
      [] direction = SOUTH -> ((py - ty) * 10000) - (Abs(tx - px) * 1000)
      [] direction = EAST -> ((tx - px) * 10000) - (Abs(ty - py) * 1000)
      [] direction = WEST -> ((px - tx) * 10000) - (Abs(ty - py) * 1000)
      [] direction = NORTHEAST -> ((ty - py) * 10000) + ((tx - px) * 1000)
      [] direction = NORTHWEST -> ((ty - py) * 10000) + ((px - tx) * 1000)
      [] direction = SOUTHEAST -> ((py - ty) * 10000) + ((tx - px) * 1000)
      [] direction = SOUTHWEST -> ((py - ty) * 10000) + ((px - tx) * 1000)

DIRECTION_SCORING(direction, px, py, tx, ty) ==
    CASE direction = NORTH -> ((ty - py) * 1000000) - (Abs(tx - px) * 1000)
      [] direction = SOUTH -> ((py - ty) * 1000000) - (Abs(tx - px) * 1000)
      [] direction = EAST -> ((tx - px) * 1000000) - (Abs(ty - py) * 1000)
      [] direction = WEST -> ((px - tx) * 1000000) - (Abs(ty - py) * 1000)
      [] direction = NORTHEAST -> ((ty - py) * 100000) + ((tx - px) * 1000)
      [] direction = NORTHWEST -> ((ty - py) * 100000) + ((px - tx) * 1000)
      [] direction = SOUTHEAST -> ((py - ty) * 100000) + ((tx - px) * 1000)
      [] direction = SOUTHWEST -> ((py - ty) * 100000) + ((px - tx) * 1000)

\* str.upper() on the characters that occur in tokens
Upper(ch) ==
    CASE ch = "n" -> "N"
      [] ch = "s" -> "S"
      [] ch = "e" -> "E"
      [] ch = "w" -> "W"
      [] OTHER -> ch

UpperStr(s) == [i \in 1..Len(s) |-> Upper(s[i])]

Digits == {"0", "1", "2", "3", "4", "5", "6", "7", "8", "9"}

DigitValue(ch) ==
    CASE ch = "0" -> 0 [] ch = "1" -> 1 [] ch = "2" -> 2 [] ch = "3" -> 3
      [] ch = "4" -> 4 [] ch = "5" -> 5 [] ch = "6" -> 6 [] ch = "7" -> 7
      [] ch = "8" -> 8 [] ch = "9" -> 9

\* index of the last character of the longest run of digits of s starting at i
\* (i - 1 when s[i] is no digit): the greedy \d+ and \d* of the pattern
RECURSIVE DigitsEnd(_, _)
DigitsEnd(s, i) ==
    IF i <= Len(s) /\ s[i] \in Digits THEN DigitsEnd(s, i + 1) ELSE i - 1

\* re.findall(r'([NSEW])(\d+\.?\d*)', s) scanning from position i:
\* the sequence of <<letter, number text>> of the non-overlapping matches
RECURSIVE re_findall(_, _)
re_findall(s, i) ==
    IF i > Len(s) THEN << >>
    ELSE IF s[i] \in {"N", "S", "E", "W"} /\ DigitsEnd(s, i + 1) >= i + 1
         THEN LET j == DigitsEnd(s, i + 1)
                  k == IF j + 1 <= Len(s) /\ s[j + 1] = "."
                       THEN DigitsEnd(s, j + 2)
                       ELSE j
              IN  << <<s[i], SubSeq(s, i + 1, k)>> >> \o re_findall(s, k + 1)
         ELSE re_findall(s, i + 1)

\* the decimal number written by a text matching \d+\.?\d*, as the exact
\* fraction num / den
RECURSIVE FloatOf(_, _, _, _)
FloatOf(text, i, acc, den) ==
    IF i > Len(text) THEN [num |-> acc, den |-> IF den = 0 THEN 1 ELSE den]
    ELSE IF text[i] = "." THEN FloatOf(text, i + 1, acc, 1)
    ELSE FloatOf(text, i + 1, acc * 10 + DigitValue(text[i]),
                 IF den = 0 THEN 0 ELSE den * 10)

\* A Python float that is >= 0 is an IEEE-754 double: [int, frac] with int the
\* integer part and frac the bits after the binary point, most significant first
\* and without trailing zeros, of at most MantissaBits significant bits in all.
MantissaBits == 53

RECURSIVE BitLength(_)
BitLength(n) == IF n = 0 THEN 0 ELSE 1 + BitLength(n \div 2)

\* the number of leading / trailing zero bits of a bit sequence
LeadingZeros(bits) ==
    Cardinality({k \in 1..Len(bits) : \A j \in 1..k : bits[j] = 0})

TrailingZeros(bits) ==
    Cardinality({k \in 1..Len(bits) : \A j \in k..Len(bits) : bits[j] = 0})

Double(int, bits) ==
    [int |-> int, frac |-> SubSeq(bits, 1, Len(bits) - TrailingZeros(bits))]

SignificantBits(int, bits) ==
    IF int > 0 THEN BitLength(int) + Len(bits) ELSE Len(bits) - LeadingZeros(bits)

\* int.bits plus one unit in the last place of bits
AddUlp(int, bits) ==
    IF \A i \in 1..Len(bits) : bits[i] = 1
    THEN Double(int + 1, << >>)
    ELSE Double(int, [i \in 1..Len(bits) |->
                        IF \E j \in (i + 1)..Len(bits) : bits[j] = 0 THEN bits[i]
                        ELSE IF bits[i] = 0 THEN 1 ELSE 0])

\* int.bits with its last d > 0 bits rounded away, to nearest, ties to even
RoundDropping(int, bits, d) ==
    IF /\ bits[Len(bits) - d + 1] = 1
       /\ \/ \E i \in (Len(bits) - d + 2)..Len(bits) : bits[i] = 1
          \/ IF Len(bits) = d THEN int % 2 = 1 ELSE bits[Len(bits) - d] = 1
    THEN AddUlp(int, SubSeq(bits, 1, Len(bits) - d))
    ELSE Double(int, SubSeq(bits, 1, Len(bits) - d))

\* the double nearest to the binary number int.bits
RoundToDouble(int, bits) ==
    IF SignificantBits(int, bits) <= MantissaBits
    THEN Double(int, bits)
    ELSE RoundDropping(int, bits, SignificantBits(int, bits) - MantissaBits)

\* the binary expansion of r / den (r < den) up to need significant bits, followed
\* by a 1 if the expansion goes on; started: a 1 bit came before
RECURSIVE FractionBits(_, _, _, _)
FractionBits(r, den, need, started) ==
    IF r = 0 THEN << >>
    ELSE IF need = 0 THEN <<1>>
    ELSE <<(2 * r) \div den>>
         \o FractionBits((2 * r) % den, den,
                         IF started \/ 2 * r >= den THEN need - 1 ELSE need,
                         started \/ 2 * r >= den)

\* the double nearest to the fraction v.num / v.den
NearestDouble(v) ==
    RoundToDouble(v.num \div v.den,
                  FractionBits(v.num % v.den, v.den,
                               MantissaBits + 2 - BitLength(v.num \div v.den),
                               v.num >= v.den))

\* float(text) for text matching \d+\.?\d*
float(text) == NearestDouble(FloatOf(text, 1, 0, 0))

\* bits[1..i] times n plus carry, in front of acc: [carry, bits]
RECURSIVE TimesBits(_, _, _, _, _)
TimesBits(bits, i, n, carry, acc) ==
    IF i = 0 THEN [carry |-> carry, bits |-> acc]
    ELSE TimesBits(bits, i - 1, n, (bits[i] * n + carry) \div 2,
                   <<(bits[i] * n + carry) % 2>> \o acc)

\* the double n * x for an integer n > 0, product being n times the bits of x.frac
Scaled(n, x, product) == RoundToDouble(x.int * n + product.carry, product.bits)

FloatTimes(n, x) == Scaled(n, x, TimesBits(x.frac, Len(x.frac), n, 0, << >>))

\* x - 1.0 for x >= 1.0: exact
FloatMinusOne(x) == [int |-> x.int - 1, frac |-> x.frac]

\* math.ceil(x)
ceil(x) == x.int + (IF x.frac # << >> THEN 1 ELSE 0)

\* A dict is a sequence of <<key, value>> pairs in insertion order, keys unique.
DictKeys(d) == {d[i][1] : i \in 1..Len(d)}

DictGet(d, key) == d[CHOOSE i \in 1..Len(d) : d[i][1] = key][2]

\* d[key] = value: an existing key keeps its place
DictSet(d, key, value) ==
    IF key \in DictKeys(d)
    THEN [i \in 1..Len(d) |-> IF d[i][1] = key THEN <<key, value>> ELSE d[i]]
    ELSE Append(d, <<key, value>>)

\* direction_map of _parse_priority_with_coefficients
\* direction_map with east and west exchanged
LetterDirectionMirrored(letter) ==
    CASE letter = "N" -> NORTH
      [] letter = "S" -> SOUTH
      [] letter = "E" -> WEST
      [] letter = "W" -> EAST

LetterDirection(letter) ==
    CASE letter = "N" -> NORTH
      [] letter = "S" -> SOUTH
      [] letter = "E" -> EAST
      [] letter = "W" -> WEST

\* the direction taken from the first weighted letter alone
CombinedDirectionFirstLetter(direction_str, priority_str) ==
    LetterDirection(direction_str[1])

\* the direction_name table; unknown letter strings fall back to the token itself
CombinedDirection(direction_str, priority_str) ==
    CASE direction_str = <<"N">> -> NORTH
      [] direction_str = <<"S">> -> SOUTH
      [] direction_str = <<"E">> -> EAST
      [] direction_str = <<"W">> -> WEST
      [] direction_str = <<"N", "E">> -> NORTHEAST
      [] direction_str = <<"N", "W">> -> NORTHWEST
      [] direction_str = <<"S", "E">> -> SOUTHEAST
      [] direction_str = <<"S", "W">> -> SOUTHWEST
      [] OTHER -> priority_str

RECURSIVE BuildCoefficients(_, _, _)
BuildCoefficients(matches, i, coefficients) ==
    IF i > Len(matches) THEN coefficients
    ELSE BuildCoefficients(matches, i + 1,
            DictSet(coefficients, LetterDirection(matches[i][1]), float(matches[i][2])))

_parse_priority_with_coefficients(priority_str) ==
    IF priority_str \in DirectionNames
    THEN [direction |-> priority_str, coefficients |-> << >>]
    ELSE LET matches == re_findall(UpperStr(priority_str), 1)
         IN  IF matches = << >>
             THEN [direction |-> priority_str, coefficients |-> << >>]
             ELSE [direction |->
                      CombinedDirection([i \in 1..Len(matches) |-> matches[i][1]],
                                        priority_str),
                   coefficients |-> BuildCoefficients(matches, 1, << >>)]

-----------------------------------------------------------------------------
(* Movement amplifier and zig-zag pattern *)

\* direction_to_movement of _apply_movement_coefficients; "NONE" for no entry
direction_to_movement(direction) ==
    CASE direction = NORTH -> "UP"
      [] direction = SOUTH -> "DOWN"
      [] direction = EAST -> "RIGHT"
      [] direction = WEST -> "LEFT"
      [] OTHER -> "NONE"

Count(path, move) == Cardinality({i \in 1..Len(path) : path[i] = move})

Repeat(move, n) == [i \in 1..n |-> move]

\* math.ceil(a / b) for b > 0
CeilDiv(a, b) == -((-a) \div b)

\* ExtraCount with the product taken of coeff instead of coeff - 1.0
ExtraCountOfWhole(original_count, coeff) ==
    ceil(FloatTimes(original_count, coeff))

\* math.ceil(original_count * (coeff - 1.0)) for original_count > 0; below 1.0
\* the product is negative and the result, only tested for > 0, is given as 0
ExtraCount(original_count, coeff) ==
    IF coeff.int < 1 THEN 0
    ELSE ceil(FloatTimes(original_count, FloatMinusOne(coeff)))

RECURSIVE ExtraMovements(_, _, _)
ExtraMovements(path, coefficients, i) ==
    IF i > Len(coefficients) THEN << >>
    ELSE LET movement == direction_to_movement(coefficients[i][1])
             original_count == Count(path, movement)
             extra_count == ExtraCount(original_count, coefficients[i][2])
         IN  (IF movement # "NONE" /\ original_count > 0 /\ extra_count > 0
              THEN Repeat(movement, extra_count)
              ELSE << >>)
             \o ExtraMovements(path, coefficients, i + 1)

\* _apply_movement_coefficients with the extra movements put in front
_apply_movement_coefficients_in_front(path, coefficients) ==
    IF coefficients = << >> THEN path
    ELSE ExtraMovements(path, coefficients, 1) \o path

_apply_movement_coefficients(path, coefficients) ==
    IF coefficients = << >> THEN path
    ELSE path \o ExtraMovements(path, coefficients, 1)

\* the patterns table of _get_zigzag_pattern, with its default
\* patterns whose diagonals open with the backward move
ZigzagBasePatternBackFirst(direction) ==
    CASE direction = NORTHEAST -> <<"DOWN", "UP", "UP", "RIGHT">>
      [] direction = NORTHWEST -> <<"DOWN", "UP", "UP", "LEFT">>
      [] direction = SOUTHEAST -> <<"UP", "DOWN", "DOWN", "RIGHT">>
      [] direction = SOUTHWEST -> <<"UP", "DOWN", "DOWN", "LEFT">>
      [] direction = NORTH -> <<"UP", "UP", "UP", "UP">>
      [] direction = SOUTH -> <<"DOWN", "DOWN", "DOWN", "DOWN">>
      [] direction = EAST -> <<"RIGHT", "RIGHT", "RIGHT", "RIGHT">>
      [] direction = WEST -> <<"LEFT", "LEFT", "LEFT", "LEFT">>
      [] OTHER -> <<"UP">>

ZigzagBasePattern(direction) ==
    CASE direction = NORTHEAST -> <<"UP", "UP", "RIGHT", "DOWN">>
      [] direction = NORTHWEST -> <<"UP", "UP", "LEFT", "DOWN">>
      [] direction = SOUTHEAST -> <<"DOWN", "DOWN", "RIGHT", "UP">>
      [] direction = SOUTHWEST -> <<"DOWN", "DOWN", "LEFT", "UP">>
      [] direction = NORTH -> <<"UP", "UP", "UP", "UP">>
      [] direction = SOUTH -> <<"DOWN", "DOWN", "DOWN", "DOWN">>
      [] direction = EAST -> <<"RIGHT", "RIGHT", "RIGHT", "RIGHT">>
      [] direction = WEST -> <<"LEFT", "LEFT", "LEFT", "LEFT">>
      [] OTHER -> <<"UP">>

\* the loop of _get_zigzag_pattern without the final slice result[:length]
RECURSIVE ZigzagExtendWhole(_, _, _)
ZigzagExtendWhole(result, base_pattern, length) ==
    IF Len(result) < length
    THEN ZigzagExtendWhole(result \o base_pattern, base_pattern, length)
    ELSE result

RECURSIVE ZigzagExtend(_, _, _)
ZigzagExtend(result, base_pattern, length) ==
    IF Len(result) < length
    THEN ZigzagExtend(result \o base_pattern, base_pattern, length)
    ELSE SubSeq(result, 1, length)

_get_zigzag_pattern(direction, length) ==
    ZigzagExtend(<< >>, ZigzagBasePattern(direction), length)

-----------------------------------------------------------------------------
(* Stuck detection *)

\* a fingerprint of the location alone, without the position
_get_map_state_hash_location_only(state_data) ==
    IF state_data.present THEN <<state_data.location_name>> ELSE None

\* state_data is a record [present, location_name, x, y, tiles]; present = FALSE
\* stands for a missing (None) state, on which every .get raises.
\* f"{location}_{pos_x}_{pos_y}" with integer coordinates determines, and is
\* determined by, the triple; the except branch returns None.
_get_map_state_hash(state_data) ==
    IF state_data.present
    THEN <<state_data.location_name, state_data.x, state_data.y>>
    ELSE None

IndexError == <<"IndexError">>

\* raw_tiles[r][c] with Python's 0-based indices
TileAt(raw_tiles, r, c) ==
    IF r + 1 \in 1..Len(raw_tiles) /\ c + 1 \in 1..Len(raw_tiles[r + 1])
    THEN raw_tiles[r + 1][c + 1]
    ELSE IndexError

\* tile and len(tile) >= 3 and tile[2] != 0
TileBlocked(tile) == Len(tile) >= 3 /\ tile[3] # 0

\* _is_stuck without its blocked-neighbour check: only the fingerprint comparison
\* reports stuck
SurroundedCheckSkipped(state_data) == FALSE

\* lines 64-91 of _is_stuck: the blocked-neighbour check
SurroundedCheck(state_data) ==
    IF ~state_data.present THEN FALSE
    ELSE LET raw_tiles == state_data.tiles
             center == Len(raw_tiles) \div 2
         IN  IF Len(raw_tiles) = 0 THEN FALSE
             ELSE IF ~(center > 0 /\ center < Len(raw_tiles)
                       /\ Len(raw_tiles[center + 1]) > center)
             THEN FALSE
             ELSE LET up == TileAt(raw_tiles, center - 1, center)
                      down == IF center < Len(raw_tiles) - 1
                              THEN TileAt(raw_tiles, center + 1, center) ELSE None
                      left == TileAt(raw_tiles, center, center - 1)
                      right == IF center < Len(raw_tiles[1]) - 1
                               THEN TileAt(raw_tiles, center, center + 1) ELSE None
                      neighbours == <<up, down, left, right>>
                  IN  IF \E i \in 1..4 : neighbours[i] = IndexError THEN FALSE
                      ELSE Cardinality({i \in 1..4 : TileBlocked(neighbours[i])}) >= 3

\* the counter value from which the fingerprint comparison reports stuck
StuckThreshold == 1

\* the fingerprint comparison of _is_stuck: the globals after lines 51-57
FingerprintUpdate(state_data, last_map_state, stuck_counter) ==
    LET current_state == _get_map_state_hash(state_data)
    IN  IF current_state = last_map_state
        THEN [_STUCK_COUNTER |-> stuck_counter + 1, _LAST_MAP_STATE |-> last_map_state]
        ELSE [_STUCK_COUNTER |-> 0, _LAST_MAP_STATE |-> current_state]

\* _is_stuck reporting stuck from the second repetition of a fingerprint on
\* (_STUCK_COUNTER >= 2)
_is_stuck_after_two(state_data, last_map_state, stuck_counter) ==
    LET g == FingerprintUpdate(state_data, last_map_state, stuck_counter)
    IN  [result |-> IF g._STUCK_COUNTER >= StuckThreshold + 1 THEN TRUE
                    ELSE SurroundedCheck(state_data),
         by_fingerprint |-> g._STUCK_COUNTER >= StuckThreshold + 1,
         _STUCK_COUNTER |-> g._STUCK_COUNTER,
         _LAST_MAP_STATE |-> g._LAST_MAP_STATE]

\* _is_stuck: the result and the globals it leaves
_is_stuck(state_data, last_map_state, stuck_counter) ==
    LET g == FingerprintUpdate(state_data, last_map_state, stuck_counter)
    IN  [result |-> IF g._STUCK_COUNTER >= StuckThreshold THEN TRUE
                    ELSE SurroundedCheck(state_data),
         by_fingerprint |-> g._STUCK_COUNTER >= StuckThreshold,
         _STUCK_COUNTER |-> g._STUCK_COUNTER,
         _LAST_MAP_STATE |-> g._LAST_MAP_STATE]

\* _reset_stuck leaving the counter at the threshold
_reset_stuck_to_threshold == StuckThreshold

\* _reset_stuck: the new value of the counter
_reset_stuck == 0

-----------------------------------------------------------------------------
(* Action strings and movement tracking *)

\* The string a handler returns is header + ", ".join(items); items = << >> with an
\* empty header is the empty string.
ActionString(header, items) == [header |-> header, items |-> items]

EmptyAction == ActionString(<< >>, << >>)

\* action_string.split(','), each piece stripped and upper-cased: the header is
\* glued to the first item, so the first piece is <<header, item>>, never a bare move
SplitPieces(action_string) ==
    [i \in 1..Len(action_string.items) |->
        IF i = 1 /\ action_string.header # << >>
        THEN <<action_string.header, action_string.items[1]>>
        ELSE <<action_string.items[i]>>]

CardinalMoves == {"UP", "DOWN", "LEFT", "RIGHT"}

RECURSIVE TrackedMovements(_, _)
TrackedMovements(pieces, i) ==
    IF i > Len(pieces) THEN << >>
    ELSE (IF Len(pieces[i]) = 1 /\ pieces[i][1] \in CardinalMoves
          THEN <<pieces[i][1]>> ELSE << >>)
         \o TrackedMovements(pieces, i + 1)

\* size of the rolling window of _MOVEMENT_HISTORY
HistoryWindow == 100

\* history[:100]: the oldest moves kept
FirstN(history, n) ==
    IF Len(history) <= n THEN history ELSE SubSeq(history, 1, n)

\* history[-100:]
LastN(history, n) ==
    IF Len(history) <= n THEN history
    ELSE SubSeq(history, Len(history) - n + 1, Len(history))

\* _track_movement without line 116 (_PHASE_MOVE_COUNT += len(movements))
_track_movement_history_only(action_string, movement_history, phase_move_count) ==
    IF action_string = EmptyAction
    THEN [_MOVEMENT_HISTORY |-> movement_history, _PHASE_MOVE_COUNT |-> phase_move_count]
    ELSE [_MOVEMENT_HISTORY |->
              LastN(movement_history \o TrackedMovements(SplitPieces(action_string), 1),
                    HistoryWindow),
          _PHASE_MOVE_COUNT |-> phase_move_count]

\* _track_movement: the globals it leaves
_track_movement(action_string, movement_history, phase_move_count) ==
    IF action_string = EmptyAction
    THEN [_MOVEMENT_HISTORY |-> movement_history, _PHASE_MOVE_COUNT |-> phase_move_count]
    ELSE LET movements == TrackedMovements(SplitPieces(action_string), 1)
         IN  [_MOVEMENT_HISTORY |-> LastN(movement_history \o movements, HistoryWindow),
              _PHASE_MOVE_COUNT |-> phase_move_count + Len(movements)]

-----------------------------------------------------------------------------
(* The external collaborators: grid builder and path primitive *)

\* env is a record [builder, astar, faulty, marker] saying how the collaborators
\* answer in this call: builder "ok" | "null" | "noplayer", astar "route" | "empty" |
\* "fault", faulty the goals for which the path primitive raises, marker the cell of
\* the player marker.

\* format_map_grid: one symbol per raw tile (tile[0] here), the player marker at the
\* centre of the tile window unless env.marker names another cell; a grid is a
\* sequence of rows, row 1 topmost.
format_map_grid(raw_tiles, env) ==
    IF env.builder = "null" THEN << >>
    ELSE LET center == Len(raw_tiles) \div 2 + 1
             marker == IF env.marker = << >> THEN <<center, center>>
                       ELSE <<env.marker[2] + 1, env.marker[1] + 1>>
         IN  [r \in 1..Len(raw_tiles) |->
                [c \in 1..Len(raw_tiles[r]) |->
                    IF env.builder = "ok" /\ <<r, c>> = marker
                    THEN "P" ELSE raw_tiles[r][c][1]]]

\* grid[y][x] with 0-based x, y
GridAt(grid, x, y) == grid[y + 1][x + 1]

InGrid(grid, x, y) == y \in 0..(Len(grid) - 1) /\ x \in 0..(Len(grid[1]) - 1)

\* the tiles a route may step on
PathTiles == {".", "~", "S"}

MoveDelta(move) ==
    CASE move = "UP" -> <<0, -1>>
      [] move = "DOWN" -> <<0, 1>>
      [] move = "LEFT" -> <<-1, 0>>
      [] move = "RIGHT" -> <<1, 0>>

MoveOrder == <<"UP", "DOWN", "LEFT", "RIGHT">>

Step(pos, move) == <<pos[1] + MoveDelta(move)[1], pos[2] + MoveDelta(move)[2]>>

\* breadth-first layers from the start until the goal is reached; << >> if it is not
RECURSIVE SearchLayers(_, _, _, _)
SearchLayers(grid, goal, layers, visited) ==
    LET frontier == layers[Len(layers)]
        next == {q \in {Step(p, MoveOrder[m]) : p \in frontier, m \in 1..4} :
                    /\ InGrid(grid, q[1], q[2])
                    /\ q \notin visited
                    /\ (q = goal \/ GridAt(grid, q[1], q[2]) \in PathTiles)}
    IN  IF goal \in frontier THEN layers
        ELSE IF next = {} THEN << >>
        ELSE SearchLayers(grid, goal, Append(layers, next), visited \cup next)

\* the moves of one shortest route, read back from the goal through the layers
RECURSIVE RouteBack(_, _, _)
RouteBack(layers, k, pos) ==
    IF k = 1 THEN << >>
    ELSE LET m == CHOOSE i \in 1..4 :
                    /\ <<pos[1] - MoveDelta(MoveOrder[i])[1],
                         pos[2] - MoveDelta(MoveOrder[i])[2]>> \in layers[k - 1]
                    /\ \A j \in 1..(i - 1) :
                         <<pos[1] - MoveDelta(MoveOrder[j])[1],
                           pos[2] - MoveDelta(MoveOrder[j])[2]>> \notin layers[k - 1]
             prev == <<pos[1] - MoveDelta(MoveOrder[m])[1],
                       pos[2] - MoveDelta(MoveOrder[m])[2]>>
         IN  Append(RouteBack(layers, k - 1, prev), MoveOrder[m])

\* astar_pathfind(grid, start, goal, location_name): [fault, path]; the empty
\* path signals no route
astar_pathfind(grid, start, goal, env) ==
    IF env.astar = "fault" \/ goal \in env.faulty THEN [fault |-> TRUE, path |-> << >>]
    ELSE IF env.astar = "empty" \/ ~InGrid(grid, start[1], start[2])
    THEN [fault |-> FALSE, path |-> << >>]
    ELSE LET layers == SearchLayers(grid, goal, <<{start}>>, {start})
         IN  [fault |-> FALSE,
              path |-> IF layers = << >> THEN << >>
                       ELSE RouteBack(layers, Len(layers), goal)]

-----------------------------------------------------------------------------
(* Goal selector *)

\* the tiles _is_dead_end does not count as walkable neighbours
DeadEndBlocking == {"#", "W", " "}

\* check_directions of _is_dead_end
check_directions(direction) ==
    CASE direction \in {NORTH, NORTHEAST, NORTHWEST} -> <<(<<0, -1>>), <<1, 0>>, <<-1, 0>>>>
      [] direction \in {SOUTH, SOUTHEAST, SOUTHWEST} -> <<(<<0, 1>>), <<1, 0>>, <<-1, 0>>>>
      [] direction = EAST -> <<(<<1, 0>>), <<0, -1>>, <<0, 1>>>>
      [] direction = WEST -> <<(<<-1, 0>>), <<0, -1>>, <<0, 1>>>>
      [] OTHER -> <<(<<0, -1>>), <<0, 1>>, <<-1, 0>>, <<1, 0>>>>

\* the threshold of forward walkable neighbours below which a tile is a dead end
DeadEndMinForward == 2

\* _is_dead_end counting a neighbour outside the grid as walkable
_is_dead_end_counting_outside(grid, pos, direction) ==
    IF grid = << >> THEN FALSE
    ELSE IF ~InGrid(grid, pos[1], pos[2]) THEN FALSE
    ELSE LET dirs == check_directions(direction)
             forward_walkable ==
                Cardinality({i \in 1..Len(dirs) :
                    InGrid(grid, pos[1] + dirs[i][1], pos[2] + dirs[i][2]) =>
                        GridAt(grid, pos[1] + dirs[i][1], pos[2] + dirs[i][2])
                            \notin DeadEndBlocking})
         IN  forward_walkable < DeadEndMinForward

_is_dead_end(grid, pos, direction) ==
    IF grid = << >> THEN FALSE
    ELSE IF ~InGrid(grid, pos[1], pos[2]) THEN FALSE
    ELSE LET dirs == check_directions(direction)
             forward_walkable ==
                Cardinality({i \in 1..Len(dirs) :
                    /\ InGrid(grid, pos[1] + dirs[i][1], pos[2] + dirs[i][2])
                    /\ GridAt(grid, pos[1] + dirs[i][1], pos[2] + dirs[i][2])
                          \notin DeadEndBlocking})
         IN  forward_walkable < DeadEndMinForward

\* walkable_tiles with the blocked tile among them
walkable_tiles_and_blocked == {".", "~", "S", "#"}

\* walkable_tiles of _path_to_direction
walkable_tiles == {".", "~", "S"}

\* FindPlayer taking the centre of the grid when there is no 'P'
FindPlayerOrCentre(grid) ==
    LET cells == {<<x, y>> \in (0..(Len(grid[1]) - 1)) \X (0..(Len(grid) - 1)) :
                     GridAt(grid, x, y) = "P"}
    IN  IF cells = {} THEN <<Len(grid[1]) \div 2, Len(grid) \div 2>>
        ELSE CHOOSE p \in cells :
                \A q \in cells : p[2] < q[2] \/ (p[2] = q[2] /\ p[1] <= q[1])

\* the first 'P' in row-major order, as <<x, y_idx>>; << >> if there is none
FindPlayer(grid) ==
    LET cells == {<<x, y>> \in (0..(Len(grid[1]) - 1)) \X (0..(Len(grid) - 1)) :
                     GridAt(grid, x, y) = "P"}
    IN  IF cells = {} THEN << >>
        ELSE CHOOSE p \in cells :
                \A q \in cells : p[2] < q[2] \/ (p[2] = q[2] /\ p[1] <= q[1])

\* Candidates comparing row indices as they are stored, without turning them into
\* the y that grows northward
RECURSIVE CandidatesUnflipped(_, _, _, _)
CandidatesUnflipped(grid, direction, player, n) ==
    LET width == Len(grid[1])
        height == Len(grid)
    IN  IF n >= width * height THEN << >>
        ELSE LET x_idx == n % width
                 y_idx == n \div width
             IN  (IF /\ GridAt(grid, x_idx, y_idx) \in walkable_tiles
                     /\ DIRECTION_FILTERS(direction, player[1], player[2], x_idx, y_idx)
                  THEN << <<DIRECTION_SCORING(direction, player[1], player[2],
                                              x_idx, y_idx),
                            <<x_idx, y_idx>>>> >>
                  ELSE << >>)
                 \o CandidatesUnflipped(grid, direction, player, n + 1)

\* candidates in enumeration order (rows top to bottom, then x): <<score, <<x, y_idx>>>>
RECURSIVE Candidates(_, _, _, _)
Candidates(grid, direction, player, n) ==
    LET width == Len(grid[1])
        height == Len(grid)
    IN  IF n >= width * height THEN << >>
        ELSE LET x_idx == n % width
                 y_idx == n \div width
                 grid_y == height - 1 - y_idx
                 player_visual_y == height - 1 - player[2]
             IN  (IF /\ GridAt(grid, x_idx, y_idx) \in walkable_tiles
                     /\ DIRECTION_FILTERS(direction, player[1], player_visual_y, x_idx, grid_y)
                  THEN << <<DIRECTION_SCORING(direction, player[1], player_visual_y,
                                              x_idx, grid_y),
                            <<x_idx, y_idx>>>> >>
                  ELSE << >>)
                 \o Candidates(grid, direction, player, n + 1)

\* candidates.sort(reverse=True, key=score): stable, so ties keep enumeration order
RECURSIVE SortByScore(_)
SortByScore(candidates) ==
    IF candidates = << >> THEN << >>
    ELSE LET best == CHOOSE i \in 1..Len(candidates) :
                        /\ \A j \in 1..Len(candidates) : candidates[j][1] <= candidates[i][1]
                        /\ \A j \in 1..(i - 1) : candidates[j][1] < candidates[i][1]
         IN  <<candidates[best]>>
             \o SortByScore([j \in 1..(Len(candidates) - 1) |->
                                IF j < best THEN candidates[j] ELSE candidates[j + 1]])

\* how many of the best candidates are tried
MaxCandidates == 20

\* the loop over candidates[:20]: [path, goal, requests, fault]
RECURSIVE TryCandidates(_, _, _, _, _, _)

\* lines 361-366 for candidate i, found being what astar_pathfind answered for it
TryCandidate(found, grid, player, direction, candidates, i, env) ==
    IF found.fault
    THEN [path |-> << >>, goal |-> << >>, requests |-> i, fault |-> TRUE]
    ELSE IF found.path # << >> /\ ~_is_dead_end(grid, candidates[i][2], direction)
    THEN [path |-> found.path, goal |-> candidates[i][2], requests |-> i,
          fault |-> FALSE]
    ELSE TryCandidates(grid, player, direction, candidates, i + 1, env)

TryCandidates(grid, player, direction, candidates, i, env) ==
    IF i > Len(candidates) \/ i > MaxCandidates
    THEN [path |-> << >>, goal |-> << >>, requests |-> i - 1, fault |-> FALSE]
    ELSE TryCandidate(astar_pathfind(grid, player, candidates[i][2], env),
                      grid, player, direction, candidates, i, env)

NoPath == [path |-> << >>, goal |-> << >>, requests |-> 0, fault |-> FALSE]

\* _path_to_direction: the path (<< >> if the direction is blocked), the goal it leads
\* to, the number of requests made to the path primitive, and whether a fault was
\* caught by the except branch
_path_to_direction(state_data, direction, env) ==
    IF direction \notin DirectionNames THEN NoPath
    ELSE IF ~state_data.present THEN NoPath
    ELSE IF state_data.tiles = << >> THEN NoPath
    ELSE LET grid == format_map_grid(state_data.tiles, env)
         IN  IF grid = << >> THEN NoPath
             ELSE LET player == FindPlayer(grid)
                  IN  IF player = << >> THEN NoPath
                      ELSE LET candidates ==
                                  SortByScore(Candidates(grid, direction, player, 0))
                           IN  IF Len(candidates) = 0 THEN NoPath
                               ELSE TryCandidates(grid, player, direction,
                                                  candidates, 1, env)

-----------------------------------------------------------------------------
(* Inputs *)

\* a raw tile: <<symbol, behaviour, collision>>
Tile(symbol) == <<symbol, 0, IF symbol \in {"#", "W"} THEN 1 ELSE 0>>

TileRow(symbols) == [i \in 1..Len(symbols) |-> Tile(symbols[i])]

\* 5x5 window, every tile walkable
OpenMap ==
    << TileRow(<<".", ".", ".", ".", ".">>),
       TileRow(<<".", ".", ".", ".", ".">>),
       TileRow(<<".", ".", ".", ".", ".">>),
       TileRow(<<".", ".", ".", ".", ".">>),
       TileRow(<<".", ".", ".", ".", ".">>) >>

\* 5x5 window, the four neighbours of the player blocked
BoxedMap ==
    << TileRow(<<".", ".", ".", ".", ".">>),
       TileRow(<<".", ".", "#", ".", ".">>),
       TileRow(<<".", "#", ".", "#", ".">>),
       TileRow(<<".", ".", "#", ".", ".">>),
       TileRow(<<".", ".", ".", ".", ".">>) >>

\* 5x5 window with a door north-east of the player
DoorMap ==
    << TileRow(<<"#", "#", "#", "D", "#">>),
       TileRow(<<".", ".", ".", ".", ".">>),
       TileRow(<<".", ".", ".", ".", ".">>),
       TileRow(<<".", ".", ".", ".", ".">>),
       TileRow(<<"#", "#", "#", "#", "#">>) >>

\* 5x5 window, open but for a blocked tile two columns east of the player
PillarMap ==
    << TileRow(<<".", ".", ".", ".", ".">>),
       TileRow(<<".", ".", ".", ".", ".">>),
       TileRow(<<".", ".", ".", ".", "#">>),
       TileRow(<<".", ".", ".", ".", ".">>),
       TileRow(<<".", ".", ".", ".", ".">>) >>

NoTiles == << >>

Locations == {"Route 104", "Rustboro City", "Petalburg City"}

Positions == {<<1, 1>>, <<2, 1>>}

StateData(location_name, pos, tiles, hp) ==
    [present |-> TRUE, location_name |-> location_name, x |-> pos[1], y |-> pos[2],
     tiles |-> tiles, hp |-> hp]

\* state_data = None
NoStateData ==
    [present |-> FALSE, location_name |-> "", x |-> 0, y |-> 0, tiles |-> << >>,
     hp |-> "full"]

\* the collaborators' answers: what the grid builder does, what the path primitive
\* does, the goals for which the path primitive raises a fault, and the cell
\* <<x, y_idx>> where the builder puts the player marker (<< >>: the centre)
Env(builder, astar) ==
    [builder |-> builder, astar |-> astar, faulty |-> {}, marker |-> << >>]

NormalEnv == Env("ok", "route")

\* the collaborators' answers: all is well, no route, a raised fault, no grid, no
\* player marker on the grid
Envs ==
    {NormalEnv, Env("ok", "empty"), Env("ok", "fault"), Env("null", "route"),
     Env("noplayer", "route")}

\* a tile window together with the collaborators' answers for it
Scenes ==
    ({OpenMap} \X Envs) \cup ({BoxedMap, DoorMap, PillarMap, NoTiles} \X {NormalEnv})

DOOR_ == <<"D", "O", "O", "R", "_">>

N2E3 == <<"N", "2", "E", "3">>
DOOR_NORTH == DOOR_ \o NORTH
Unparseable == <<"X", "Y", "Z">>

\* priority lists handed to _path_with_priority_list directly
PriorityLists ==
    { << >>, <<EAST>>, <<DOOR_NORTH>>, <<N2E3, WEST>>, <<Unparseable, SOUTH>>,
      <<DOOR_NORTH, Unparseable, N2E3, WEST>> }

\* the tile windows and collaborator answers of the inputs
Maps == {OpenMap, BoxedMap, DoorMap, PillarMap}

\* _path_to_direction on the inputs of the model, evaluated once per
\* (tiles, env, direction): it reads nothing else of a present state_data
GoalTable ==
    [tiles \in Maps, env \in Envs, direction \in DirectionNames |->
        _path_to_direction(StateData("", <<0, 0>>, tiles, "full"), direction, env)]

SelectGoal(state_data, direction, env) ==
    IF state_data.present /\ state_data.tiles \in Maps /\ env \in Envs
       /\ direction \in DirectionNames
    THEN GoalTable[state_data.tiles, env, direction]
    ELSE _path_to_direction(state_data, direction, env)


-----------------------------------------------------------------------------
(* Priority resolver *)

StartsWith(s, prefix) ==
    Len(s) >= Len(prefix) /\ SubSeq(s, 1, Len(prefix)) = prefix

\* lengths of the zig-zag of the stuck recovery and of the ordinary fallback
StuckZigzagLength == 16
FallbackZigzagLength == 8

\* the cancel/back prefix of the stuck recovery
StuckPrefix == <<"B", "B", "B">>

\* priority_list[0] if priority_list else 'NORTH'
PrimaryOf(priority_list) ==
    IF priority_list # << >> THEN priority_list[1] ELSE NORTH

\* the stuck recovery with the zig-zag length of the ordinary fallback
StuckRecoveryShort(priority_list) ==
    LET direction == _parse_priority_with_coefficients(PrimaryOf(priority_list)).direction
        zigzag == _get_zigzag_pattern(direction, FallbackZigzagLength)
    IN  ActionString(<<"STUCK - zigzag", direction>>, StuckPrefix \o zigzag \o <<"A">>)

\* lines 540-552: the action string of the stuck recovery
StuckRecovery(priority_list) ==
    LET direction == _parse_priority_with_coefficients(PrimaryOf(priority_list)).direction
        zigzag == _get_zigzag_pattern(direction, StuckZigzagLength)
    IN  ActionString(<<"STUCK - zigzag", direction>>, StuckPrefix \o zigzag \o <<"A">>)

\* the zig-zag fallback without the trailing confirm move
ZigzagFallbackNoConfirm(priority_list) ==
    LET primary == PrimaryOf(priority_list)
        direction == _parse_priority_with_coefficients(primary).direction
    IN  ActionString(<<"ZIGZAG fallback", primary>>,
                     _get_zigzag_pattern(direction, FallbackZigzagLength))

\* the zig-zag fallback that zig-zags in the last direction tried instead of the
\* first entry's
ZigzagFallbackLastEntry(priority_list) ==
    LET primary == IF priority_list # << >> THEN priority_list[Len(priority_list)]
                   ELSE NORTH
        direction == _parse_priority_with_coefficients(primary).direction
        zigzag == _get_zigzag_pattern(direction, FallbackZigzagLength)
    IN  ActionString(<<"ZIGZAG fallback", primary>>, Append(zigzag, "A"))

\* lines 583-591: the action string of the zig-zag fallback
ZigzagFallback(priority_list) ==
    LET primary == PrimaryOf(priority_list)
        direction == _parse_priority_with_coefficients(primary).direction
        zigzag == _get_zigzag_pattern(direction, FallbackZigzagLength)
    IN  ActionString(<<"ZIGZAG fallback", primary>>, Append(zigzag, "A"))

\* the action string for a found path without the amplifier's extra steps
RoutedActionUnamplified(priority, path, coefficients) ==
    ActionString(<<"priority", priority>>, Append(path, "A"))

\* lines 568-579: the action string for a found path
RoutedAction(priority, path, coefficients) ==
    ActionString(<<"priority", priority>>,
                 Append(IF coefficients # << >>
                        THEN _apply_movement_coefficients(path, coefficients)
                        ELSE path,
                        "A"))

\* lines 554-591: the loop over the priority list from entry i on, then the fallback.
\* tried: the directions handed to the goal selector so far; requests: the requests
\* made to the path primitive so far.
RECURSIVE ResolvePriorities(_, _, _, _, _, _)

\* lines 566-581 for entry i, found being what _path_to_direction answered for the
\* parsed direction
ResolvePriority(found, parsed, state_data, priority_list, i, env, tried, requests) ==
    IF found.path # << >>
    THEN [action |-> RoutedAction(priority_list[i], found.path, parsed.coefficients),
          _LAST_PRIORITY_USED |-> <<"PRIORITY", priority_list[i]>>,
          shape |-> "routed", used |-> i, route |-> found.path,
          goal |-> found.goal,
          tried |-> Append(tried, parsed.direction),
          requests |-> requests + found.requests]
    ELSE ResolvePriorities(state_data, priority_list, i + 1, env,
                           Append(tried, parsed.direction),
                           requests + found.requests)

\* line 562 for entry i, parsed being its direction and coefficients
ResolveParsed(parsed, state_data, priority_list, i, env, tried, requests) ==
    ResolvePriority(SelectGoal(state_data, parsed.direction, env), parsed,
                    state_data, priority_list, i, env, tried, requests)

ResolvePriorities(state_data, priority_list, i, env, tried, requests) ==
    IF i > Len(priority_list)
    THEN [action |-> ZigzagFallback(priority_list),
          _LAST_PRIORITY_USED |-> <<"ZIGZAG_FALLBACK", PrimaryOf(priority_list)>>,
          shape |-> "fallback", used |-> 0, route |-> << >>, goal |-> << >>,
          tried |-> tried, requests |-> requests]
    ELSE IF StartsWith(priority_list[i], DOOR_)
    THEN ResolvePriorities(state_data, priority_list, i + 1, env, tried, requests)
    ELSE ResolveParsed(_parse_priority_with_coefficients(priority_list[i]),
                       state_data, priority_list, i, env, tried, requests)

\* _path_with_priority_list: the returned action string, the globals it leaves, and
\* what it did on the way (stuck classification, counter right after _is_stuck,
\* directions tried, requests to the path primitive, shape of the output)
\* the stuck branch with a _reset_stuck that also forgets the stored fingerprint
StuckBranchForgetsFingerprint(check, priority_list) ==
    [action |-> StuckRecovery(priority_list),
     _LAST_PRIORITY_USED |->
         <<"STUCK_ZIGZAG",
           _parse_priority_with_coefficients(PrimaryOf(priority_list)).direction>>,
     shape |-> "stuck", used |-> 0, route |-> << >>, goal |-> << >>,
     tried |-> << >>, requests |-> 0,
     stuck |-> TRUE, by_fingerprint |-> check.by_fingerprint,
     counter_checked |-> check._STUCK_COUNTER,
     _STUCK_COUNTER |-> _reset_stuck,
     _LAST_MAP_STATE |-> None]

\* lines 539-552: the stuck branch, check being what _is_stuck answered
StuckBranch(check, priority_list) ==
    [action |-> StuckRecovery(priority_list),
     _LAST_PRIORITY_USED |->
         <<"STUCK_ZIGZAG",
           _parse_priority_with_coefficients(PrimaryOf(priority_list)).direction>>,
     shape |-> "stuck", used |-> 0, route |-> << >>, goal |-> << >>,
     tried |-> << >>, requests |-> 0,
     stuck |-> TRUE, by_fingerprint |-> check.by_fingerprint,
     counter_checked |-> check._STUCK_COUNTER,
     _STUCK_COUNTER |-> _reset_stuck,
     _LAST_MAP_STATE |-> check._LAST_MAP_STATE]

\* lines 554-591: the call was not stuck, r being what the priority loop gave
NotStuckBranch(check, r) ==
    [action |-> r.action,
     _LAST_PRIORITY_USED |-> r._LAST_PRIORITY_USED,
     shape |-> r.shape, used |-> r.used, route |-> r.route, goal |-> r.goal,
     tried |-> r.tried, requests |-> r.requests,
     stuck |-> FALSE, by_fingerprint |-> FALSE,
     counter_checked |-> check._STUCK_COUNTER,
     _STUCK_COUNTER |-> check._STUCK_COUNTER,
     _LAST_MAP_STATE |-> check._LAST_MAP_STATE]

\* line 539 on: check being what _is_stuck answered
PlanChecked(check, state_data, priority_list, env) ==
    IF check.result
    THEN StuckBranch(check, priority_list)
    ELSE NotStuckBranch(check,
                        ResolvePriorities(state_data, priority_list, 1, env, << >>, 0))

_path_with_priority_list(state_data, priority_list, env, last_map_state, stuck_counter) ==
    PlanChecked(_is_stuck(state_data, last_map_state, stuck_counter),
                state_data, priority_list, env)

-----------------------------------------------------------------------------
(* Phase controller and location handlers *)

\* The module globals as one record G, so that a handler is a function of
\* (inputs, G) giving the returned action string and the globals it leaves.
Globals(last, counter, priority, history, phase, moves) ==
    [_LAST_MAP_STATE |-> last, _STUCK_COUNTER |-> counter,
     _LAST_PRIORITY_USED |-> priority, _MOVEMENT_HISTORY |-> history,
     _CURRENT_PHASE |-> phase, _PHASE_MOVE_COUNT |-> moves]

\* _advance_phase skipping a phase
_advance_phase_by_two(G) ==
    [G EXCEPT !._CURRENT_PHASE = @ + 2, !._PHASE_MOVE_COUNT = 0]

\* _advance_phase clearing the stored fingerprint too
_advance_phase_forgets_fingerprint(G) ==
    [G EXCEPT !._CURRENT_PHASE = @ + 1, !._PHASE_MOVE_COUNT = 0,
              !._LAST_MAP_STATE = None]

_advance_phase(G) ==
    [G EXCEPT !._CURRENT_PHASE = @ + 1, !._PHASE_MOVE_COUNT = 0]

\* _reset_phases clearing the stuck state too
_reset_phases_and_stuck(G) ==
    [G EXCEPT !._CURRENT_PHASE = 0, !._PHASE_MOVE_COUNT = 0, !._MOVEMENT_HISTORY = << >>,
              !._STUCK_COUNTER = 0, !._LAST_MAP_STATE = None]

_reset_phases(G) ==
    [G EXCEPT !._CURRENT_PHASE = 0, !._PHASE_MOVE_COUNT = 0, !._MOVEMENT_HISTORY = << >>]

\* the record of a handler that made no planning call
NoPlan ==
    [action |-> EmptyAction, _LAST_PRIORITY_USED |-> << >>, shape |-> "none", used |-> 0,
     route |-> << >>, goal |-> << >>, tried |-> << >>, requests |-> 0, stuck |-> FALSE,
     by_fingerprint |-> FALSE, counter_checked |-> 0, _STUCK_COUNTER |-> 0,
     _LAST_MAP_STATE |-> << >>]

\* action = _path_with_priority_list(state_data, targets, location_name), followed by
\* _track_movement(action) when track is TRUE
\* the globals and the result after a planning call that answered plan and whose
\* tracking (if any) left t
Planned(plan, t, targets, G, track, advances) ==
    [G |-> [G EXCEPT !._LAST_MAP_STATE = plan._LAST_MAP_STATE,
                     !._STUCK_COUNTER = plan._STUCK_COUNTER,
                     !._LAST_PRIORITY_USED = plan._LAST_PRIORITY_USED,
                     !._MOVEMENT_HISTORY = t._MOVEMENT_HISTORY,
                     !._PHASE_MOVE_COUNT = t._PHASE_MOVE_COUNT],
     action |-> plan.action, planned |-> TRUE, tracked |-> track,
     priority_list |-> targets, plan |-> plan, advances |-> advances]

\* _track_movement(action) when track is TRUE
Tracking(plan, targets, G, track, advances) ==
    Planned(plan,
            IF track
            THEN _track_movement(plan.action, G._MOVEMENT_HISTORY, G._PHASE_MOVE_COUNT)
            ELSE [_MOVEMENT_HISTORY |-> G._MOVEMENT_HISTORY,
                  _PHASE_MOVE_COUNT |-> G._PHASE_MOVE_COUNT],
            targets, G, track, advances)

PlanningCall(state_data, targets, env, G, track, advances) ==
    Tracking(_path_with_priority_list(state_data, targets, env,
                                      G._LAST_MAP_STATE, G._STUCK_COUNTER),
             targets, G, track, advances)

\* a handler that returns a fixed or routed action string without planning
PlainResult(action, G, advances) ==
    [G |-> G, action |-> action, planned |-> FALSE, tracked |-> FALSE,
     priority_list |-> << >>, plan |-> NoPlan, advances |-> advances]

\* the phases table with a threshold of 0 for its second phase
phases_zero_threshold ==
    << [name |-> "Northeast 1 screen", threshold |-> 10,
        targets |-> <<NORTHEAST, NORTH, EAST>>],
       [name |-> "East 2 screens", threshold |-> 0,
        targets |-> <<EAST, NORTHEAST, SOUTHEAST>>],
       [name |-> "North 1 screen", threshold |-> 10,
        targets |-> <<NORTH, NORTHEAST, NORTHWEST>>],
       [name |-> "West 1 screen", threshold |-> 10,
        targets |-> <<WEST, NORTHWEST, SOUTHWEST>>],
       [name |-> "North 3 screens", threshold |-> 999,
        targets |-> <<NORTH, NORTHEAST, NORTHWEST>>] >>

\* the phases table of _handle_route_104_north
phases ==
    << [name |-> "Northeast 1 screen", threshold |-> 10,
        targets |-> <<NORTHEAST, NORTH, EAST>>],
       [name |-> "East 2 screens", threshold |-> 20,
        targets |-> <<EAST, NORTHEAST, SOUTHEAST>>],
       [name |-> "North 1 screen", threshold |-> 10,
        targets |-> <<NORTH, NORTHEAST, NORTHWEST>>],
       [name |-> "West 1 screen", threshold |-> 10,
        targets |-> <<WEST, NORTHWEST, SOUTHWEST>>],
       [name |-> "North 3 screens", threshold |-> 999,
        targets |-> <<NORTH, NORTHEAST, NORTHWEST>>] >>

\* lines 991-993: clamp the phase to the table
ClampPhase(G) ==
    IF G._CURRENT_PHASE >= Len(phases)
    THEN [G EXCEPT !._CURRENT_PHASE = Len(phases) - 1]
    ELSE G

\* _handle_route_104_north without the clamp of lines 991-993 on the stored index:
\* the table is read at the last phase, the index keeps growing
RECURSIVE Route104NorthUnclamped(_, _, _, _)
Route104NorthUnclamped(state_data, env, G, advances) ==
    LET current_phase_config == phases[ClampPhase(G)._CURRENT_PHASE + 1]
    IN  IF G._PHASE_MOVE_COUNT >= current_phase_config.threshold
        THEN Route104NorthUnclamped(state_data, env, _advance_phase(G), advances + 1)
        ELSE PlanningCall(state_data, current_phase_config.targets, env, G,
                          TRUE, advances)

\* _handle_route_104_north; advances counts the recursive re-entries
RECURSIVE Route104North(_, _, _, _)
Route104North(state_data, env, G, advances) ==
    LET clamped == ClampPhase(G)
        current_phase_config == phases[clamped._CURRENT_PHASE + 1]
    IN  IF clamped._PHASE_MOVE_COUNT >= current_phase_config.threshold
        THEN Route104North(state_data, env, _advance_phase(clamped), advances + 1)
        ELSE PlanningCall(state_data, current_phase_config.targets, env, clamped,
                          TRUE, advances)

_handle_route_104_north(state_data, env, G) == Route104North(state_data, env, G, 0)

\* the doors of the grid in enumeration order (rows top to bottom, then x)
RECURSIVE DoorPositions(_, _)
DoorPositions(grid, n) ==
    LET width == Len(grid[1])
    IN  IF n >= width * Len(grid) THEN << >>
        ELSE (IF GridAt(grid, n % width, n \div width) = "D"
              THEN << <<n % width, n \div width>> >> ELSE << >>)
             \o DoorPositions(grid, n + 1)

\* min(door_positions, key=...): the first door with the smallest key, keys[i]
\* being the key of positions[i]
FirstMin(positions, keys) ==
    positions[CHOOSE i \in 1..Len(positions) :
                /\ \A j \in 1..Len(positions) : keys[i] <= keys[j]
                /\ \A j \in 1..(i - 1) : keys[j] > keys[i]]

\* lines 776-823 of _find_door_and_path: whether a request is made to the path
\* primitive (a marker and a door were found), and the start and goal it passes
DoorRequest(grid, door_filter) ==
    LET player == FindPlayer(grid)
        door_positions == DoorPositions(grid, 0)
    IN  IF player = << >> \/ door_positions = << >>
        THEN [made |-> FALSE, start |-> << >>, goal |-> << >>]
        ELSE LET by_row == [i \in 1..Len(door_positions) |-> door_positions[i][2]]
                 by_distance ==
                    [i \in 1..Len(door_positions) |->
                        Abs(door_positions[i][1] - player[1])
                        + Abs(door_positions[i][2] - player[2])]
                 target_door ==
                    IF door_filter = "south"
                    THEN FirstMin(door_positions, by_row)
                    ELSE FirstMin(door_positions, by_distance)
                 player_y_idx == Len(grid) - 1 - player[2]
             IN  [made |-> TRUE, start |-> <<player[1], player_y_idx>>,
                  goal |-> target_door]

\* lines 825-833, found being what astar_pathfind answered
DoorRoute(found, append_sequence) ==
    IF found.fault \/ found.path = << >> THEN EmptyAction
    ELSE ActionString(<<"plain">>, Append(found.path \o append_sequence, "A"))

\* the request of _find_door_and_path on a grid, answered
DoorRequested(request, grid, append_sequence, env) ==
    IF ~request.made THEN EmptyAction
    ELSE DoorRoute(astar_pathfind(grid, request.start, request.goal, env),
                   append_sequence)

\* _find_door_and_path for the filters the handlers use ('any', 'south')
_find_door_and_path(state_data, door_filter, append_sequence, env) ==
    IF ~state_data.present THEN EmptyAction
    ELSE IF state_data.tiles = << >> THEN EmptyAction
    ELSE LET grid == format_map_grid(state_data.tiles, env)
         IN  IF grid = << >> THEN EmptyAction
             ELSE DoorRequested(DoorRequest(grid, door_filter), grid,
                                append_sequence, env)

\* the move count after which the Rustboro handlers leave phase 0
RustboroThreshold == 20

\* lines 1059-1063: action being what _find_door_and_path answered
RustboroDoor(action, state_data, env, G, advances) ==
    IF action # EmptyAction
    THEN PlainResult(action, G, advances)
    ELSE PlanningCall(state_data, <<NORTH>>, env, G, FALSE, advances)

\* the body shared by _handle_rustboro_low_hp and _handle_rustboro_full_hp, which
\* differ in the sequence appended to the door route
RECURSIVE RustboroCity(_, _, _, _, _)
RustboroCity(state_data, env, G, append_sequence, advances) ==
    IF G._CURRENT_PHASE = 0
    THEN IF G._PHASE_MOVE_COUNT >= RustboroThreshold
         THEN RustboroCity(state_data, env, _advance_phase(G), append_sequence, advances + 1)
         ELSE PlanningCall(state_data, <<NORTH, NORTHEAST, NORTHWEST>>, env, G,
                           TRUE, advances)
    ELSE RustboroDoor(_find_door_and_path(state_data, "any", append_sequence, env),
                      state_data, env, G, advances)

_handle_rustboro_low_hp(state_data, env, G) ==
    RustboroCity(state_data, env, G,
                 <<"UP", "UP", "UP", "UP", "A", "A", "A", "A", "A", "A", "A">>, 0)

_handle_rustboro_full_hp(state_data, env, G) ==
    RustboroCity(state_data, env, G, << >>, 0)

_handle_petalburg(state_data, env, G) ==
    PlanningCall(state_data, <<WEST>>, env, G, FALSE, 0)

\* _get_pokemon_hp_status: 'low' if a living party member is below half its HP; the
\* party scan is the field hp of state_data, and a missing state gives 'full'
_get_pokemon_hp_status(state_data) ==
    IF state_data.present THEN state_data.hp ELSE "full"

\* the location names of the model and the branch of _get_phase_6_navigation that
\* its substring tests select for each
RouterBranch(location_name) ==
    CASE location_name = "Rustboro City" -> "rustboro"
      [] location_name = "Route 104" -> "route104"
      [] location_name = "Petalburg City" -> "petalburg"
      [] OTHER -> "default"

\* _get_phase_6_navigation, for locations outside buildings
_get_phase_6_navigation(state_data, location_name, env, G) ==
    LET branch == RouterBranch(location_name)
    IN  CASE branch = "rustboro" ->
               IF _get_pokemon_hp_status(state_data) = "low"
               THEN _handle_rustboro_low_hp(state_data, env, G)
               ELSE _handle_rustboro_full_hp(state_data, env, G)
          [] branch = "route104" -> _handle_route_104_north(state_data, env, G)
          [] branch = "petalburg" -> _handle_petalburg(state_data, env, G)
          [] OTHER -> PlainResult(EmptyAction, G, 0)

-----------------------------------------------------------------------------
(* State machine *)

CurrentGlobals ==
    Globals(_LAST_MAP_STATE, _STUCK_COUNTER, _LAST_PRIORITY_USED, _MOVEMENT_HISTORY,
            _CURRENT_PHASE, _PHASE_MOVE_COUNT)

SetGlobals(G) ==
    /\ _LAST_MAP_STATE' = G._LAST_MAP_STATE
    /\ _STUCK_COUNTER' = G._STUCK_COUNTER
    /\ _LAST_PRIORITY_USED' = G._LAST_PRIORITY_USED
    /\ _MOVEMENT_HISTORY' = G._MOVEMENT_HISTORY
    /\ _CURRENT_PHASE' = G._CURRENT_PHASE
    /\ _PHASE_MOVE_COUNT' = G._PHASE_MOVE_COUNT

\* module load, lines 22-29
InitialGlobals == Globals(None, 0, None, << >>, 0, 0)

\* the record kept of an operation: its inputs, the globals before it (pre), its
\* result, the operation before it (prev_op), and the fingerprint / location of the
\* planning / navigation call before it
CallRecord(op, location_name, state_data, env, result, G) ==
    [op |-> op, location_name |-> location_name, state_data |-> state_data, env |-> env,
     pre |-> G, action |-> result.action, planned |-> result.planned,
     tracked |-> result.tracked, priority_list |-> result.priority_list,
     plan |-> result.plan, advances |-> result.advances,
     fp |-> _get_map_state_hash(state_data),
     had_plan |-> call.had_plan \/ call.planned,
     prev_fp |-> IF call.planned THEN call.fp ELSE call.prev_fp,
     prev_op |-> call.op,
     had_nav |-> call.had_nav \/ call.op = "navigate",
     prev_location |-> IF call.op = "navigate" THEN call.location_name
                       ELSE call.prev_location]

Init ==
    /\ _LAST_MAP_STATE = None
    /\ _STUCK_COUNTER = 0
    /\ _LAST_PRIORITY_USED = None
    /\ _MOVEMENT_HISTORY = << >>
    /\ _CURRENT_PHASE = 0
    /\ _PHASE_MOVE_COUNT = 0
    /\ ncalls = 0
    /\ call = [op |-> "init", location_name |-> "", state_data |-> NoStateData,
               env |-> NormalEnv, pre |-> InitialGlobals, action |-> EmptyAction,
               planned |-> FALSE, tracked |-> FALSE, priority_list |-> << >>,
               plan |-> NoPlan, advances |-> 0, fp |-> None, had_plan |-> FALSE,
               prev_fp |-> None, prev_op |-> "init", had_nav |-> FALSE,
               prev_location |-> ""]

\* one more operation, counted up to MaxCalls
Tick == ncalls' = IF ncalls < MaxCalls THEN ncalls + 1 ELSE ncalls

\* an operation returned result: the globals become result.G and the operation is
\* recorded
Returned(op, location_name, state_data, env, result) ==
    /\ SetGlobals(result.G)
    /\ call' = CallRecord(op, location_name, state_data, env, result, CurrentGlobals)
    /\ Tick

\* get_phase_6_prompt outside battle: _get_phase_6_navigation(state_data, objectives,
\* current_location)
Navigate(location_name, state_data, env) ==
    Returned("navigate", location_name, state_data, env,
             _get_phase_6_navigation(state_data, location_name, env, CurrentGlobals))

\* a planning call made directly: _path_with_priority_list(state_data, priority_list)
Plan(state_data, priority_list, env) ==
    Returned("plan", "", state_data, env,
             PlanningCall(state_data, priority_list, env, CurrentGlobals, FALSE, 0))

\* the caller resets the phases: _reset_phases()
ResetPhases ==
    Returned("reset", "", NoStateData, NormalEnv,
             PlainResult(EmptyAction, _reset_phases(CurrentGlobals), 0))

\* the hp readings that matter at a location
HpReadings(location_name) ==
    IF location_name = "Rustboro City" THEN {"low", "full"} ELSE {"full"}

NavigateAny ==
    \E location_name \in Locations :
        \/ Navigate(location_name, NoStateData, NormalEnv)
        \/ \E pos \in Positions, scene \in Scenes, hp \in HpReadings(location_name) :
              Navigate(location_name, StateData(location_name, pos, scene[1], hp),
                       scene[2])

PlanAny ==
    \E priority_list \in PriorityLists :
        \/ Plan(NoStateData, priority_list, NormalEnv)
        \/ \E pos \in Positions, scene \in Scenes :
              Plan(StateData("Route 104", pos, scene[1], "full"), priority_list, scene[2])

Next ==
    \/ ncalls < MaxCalls /\ NavigateAny
    \/ ncalls < MaxCalls /\ PlanAny
    \/ ncalls < MaxCalls /\ ResetPhases

Spec == Init /\ [][Next]_vars

\* Long sessions: any number of navigation calls and resets, at one position of
\* each location and without a tile window, so that a call is answered by the stuck
\* recovery (same location as the call before) or by the zig-zag fallback
LongPosition == <<1, 1>>

NavigateLong ==
    \E location_name \in Locations :
        Navigate(location_name, StateData(location_name, LongPosition, NoTiles, "full"),
                 NormalEnv)

NextLong == NavigateLong \/ ResetPhases

SpecLong == Init /\ [][NextLong]_vars

-----------------------------------------------------------------------------
(* Properties of the planner *)

\* the last operation made a planning call (_path_with_priority_list)
PlanningCallMade == call.planned

\* n times the same move
AllOf(move, n) == [i \in 1..n |-> move]

\* the number of cardinal moves in a sequence of actions
CardinalCount(items) == Cardinality({i \in 1..Len(items) : items[i] \in CardinalMoves})

\* the zig-zag, of the given length, of the base direction of the first entry of a
\* priority list (NORTH for the empty list)
PrimaryZigzag(priority_list, length) ==
    _get_zigzag_pattern(
        _parse_priority_with_coefficients(PrimaryOf(priority_list)).direction, length)

\* C1: every planning call returns a non-empty action sequence whose last action
\* is the confirm move A, whatever the grid, the priority list, the outcome of the
\* path primitive and the planner state before the call.
C1_PlanEndsWithConfirm ==
    PlanningCallMade =>
        /\ Len(call.action.items) > 0
        /\ call.action.items[Len(call.action.items)] = "A"

\* C1 witness: a second planning call, on a window with tiles, whose only parseable
\* entry made the path primitive raise, and which still ends with A
C1_Witness ==
    /\ PlanningCallMade /\ call.had_plan
    /\ call.state_data.present /\ call.state_data.tiles = OpenMap
    /\ call.env.astar = "fault"
    /\ call.priority_list = <<Unparseable, SOUTH>>
    /\ call.plan.shape = "fallback"
    /\ call.action.items[Len(call.action.items)] = "A"

\* C2: of two consecutive planning calls with the same (location, x, y) the second
\* is classified stuck; and a planning call whose fingerprint differs from the
\* stored one leaves _is_stuck with the counter at 0 and stores its own fingerprint.
C2_StuckOnRepeatedFingerprint ==
    PlanningCallMade =>
        /\ (call.had_plan /\ call.fp = call.prev_fp) => call.plan.stuck
        /\ (call.fp # call.pre._LAST_MAP_STATE) =>
               /\ call.plan.counter_checked = 0
               /\ _STUCK_COUNTER = 0
               /\ _LAST_MAP_STATE = call.fp

\* C2 witness: a second planning call at the position of the first, on an open
\* window, classified stuck by the fingerprint comparison alone
C2_Witness ==
    /\ PlanningCallMade /\ call.had_plan
    /\ call.fp # None /\ call.fp = call.prev_fp
    /\ call.state_data.tiles = OpenMap
    /\ ~SurroundedCheck(call.state_data)
    /\ call.plan.stuck /\ call.plan.by_fingerprint

FourNeighboursBlocked(state_data) ==
    /\ state_data.present
    /\ Len(state_data.tiles) >= 3
    /\ LET center == Len(state_data.tiles) \div 2
       IN  \A d \in {<<-1, 0>>, <<1, 0>>, <<0, -1>>, <<0, 1>>} :
              LET tile == TileAt(state_data.tiles, center + d[1], center + d[2])
              IN  tile # IndexError /\ Len(tile) >= 3 /\ tile[3] # 0

\* the first operation of a session is a planning call with the list [EAST] for a
\* player whose four neighbours are blocked
BoxedInFreshSession ==
    /\ call.prev_op = "init"
    /\ PlanningCallMade
    /\ call.priority_list = <<EAST>>
    /\ FourNeighboursBlocked(call.state_data)

\* C4 as stated: in a fresh session, with the four neighbours blocked and the list
\* [EAST], the planning call returns eight RIGHT moves and A.
C4_BoxedInGivesFallback ==
    BoxedInFreshSession => call.action.items = AllOf("RIGHT", 8) \o <<"A">>

\* C4 amended: in a fresh session, with the four neighbours blocked and the list
\* [EAST], the blocked-neighbour check classifies the call stuck, and it returns
\* B, B, B, sixteen RIGHT moves and A.
C4_BoxedInGivesStuckRecovery ==
    BoxedInFreshSession =>
        /\ call.plan.stuck /\ ~call.plan.by_fingerprint
        /\ call.action.items = <<"B", "B", "B">> \o AllOf("RIGHT", 16) \o <<"A">>

\* C4 witness: the boxed-in first call has been made and is answered by the stuck
\* recovery of 20 actions
C4_Witness ==
    /\ BoxedInFreshSession
    /\ call.state_data.tiles = BoxedMap
    /\ call.plan.shape = "stuck"
    /\ Len(call.action.items) = 20

\* the goal selector finds no route for any entry of the list that reaches it
\* (the planner skips DOOR_ entries)
GoalSelectorFailsForAll(state_data, priority_list, env) ==
    \A i \in 1..Len(priority_list) :
        \/ StartsWith(priority_list[i], DOOR_)
        \/ SelectGoal(state_data,
                      _parse_priority_with_coefficients(priority_list[i]).direction,
                      env).path = << >>

\* C5: a planning call that is not stuck and for which the goal selector fails on
\* every entry returns the 8-step zig-zag of the base direction parsed from the
\* first entry, then A.
C5_FallbackOutput ==
    ( /\ PlanningCallMade
      /\ ~call.plan.stuck
      /\ GoalSelectorFailsForAll(call.state_data, call.priority_list, call.env) ) =>
        call.action.items = PrimaryZigzag(call.priority_list, 8) \o <<"A">>

\* C5 witness: a call that is not stuck, with the list [N2E3, WEST] on the open
\* window, for which the path primitive finds no route: the north-east zig-zag
C5_Witness ==
    /\ PlanningCallMade /\ ~call.plan.stuck
    /\ call.priority_list = <<N2E3, WEST>>
    /\ call.state_data.tiles = OpenMap /\ call.env.astar = "empty"
    /\ call.plan.requests > 0
    /\ call.action.items
         = <<"UP", "UP", "RIGHT", "DOWN", "UP", "UP", "RIGHT", "DOWN", "A">>

\* the last operation was a navigation call answered by _handle_route_104_north
Route104Call ==
    call.op = "navigate" /\ RouterBranch(call.location_name) = "route104"

LastPhase == Len(phases) - 1

\* C6: a Route 104 call that starts in a phase i other than the last with
\* moves-in-phase >= the threshold of phase i plans with the priority list of
\* phase i+1 and leaves the phase index at i+1; one that starts with
\* moves-in-phase below the threshold plans with the list of phase i and leaves
\* the index at i.
C6_PhaseTransition ==
    (Route104Call /\ call.pre._CURRENT_PHASE \in 0..(LastPhase - 1)) =>
        LET i == call.pre._CURRENT_PHASE
        IN  IF call.pre._PHASE_MOVE_COUNT >= phases[i + 1].threshold
            THEN /\ call.priority_list = phases[i + 2].targets
                 /\ _CURRENT_PHASE = i + 1
            ELSE /\ call.priority_list = phases[i + 1].targets
                 /\ _CURRENT_PHASE = i

\* C6 witness: a Route 104 call that started in phase 3 with the threshold of
\* phase 3 reached, planned with the list of phase 4 and left the index at 4
C6_Witness ==
    /\ Route104Call
    /\ call.pre._CURRENT_PHASE = 3
    /\ call.pre._PHASE_MOVE_COUNT >= 10
    /\ call.advances = 1
    /\ call.priority_list = <<NORTH, NORTHEAST, NORTHWEST>>
    /\ _CURRENT_PHASE = 4

\* C7: between operations the phase index lies in 0..4, and a navigation or
\* planning call that starts in the last phase leaves the index there, also when
\* moves-in-phase has reached the threshold of the last phase.
C7_PhaseIndexBounded ==
    /\ _CURRENT_PHASE \in 0..LastPhase
    /\ (call.op \in {"navigate", "plan"} /\ call.pre._CURRENT_PHASE = LastPhase) =>
           _CURRENT_PHASE = LastPhase

\* C7 witness: a Route 104 call that started in the last phase with moves-in-phase
\* at or beyond its threshold of 999, and left the index at 4 with the count
\* started afresh
C7_Witness ==
    /\ Route104Call
    /\ call.pre._CURRENT_PHASE = 4
    /\ call.pre._PHASE_MOVE_COUNT >= 999
    /\ call.advances = 1
    /\ _CURRENT_PHASE = 4
    /\ _PHASE_MOVE_COUNT < 999

\* C8 as stated: a tracked planning call adds to moves-in-phase (counted from 0 if
\* the call advanced the phase) the number of cardinal moves of the action
\* sequence it returned.
C8_TrackedMovesCounted ==
    (PlanningCallMade /\ call.tracked) =>
        _PHASE_MOVE_COUNT
          = (IF call.advances > 0 THEN 0 ELSE call.pre._PHASE_MOVE_COUNT)
            + CardinalCount(call.action.items)

\* C9 as stated: a navigation call at another location than the navigation call
\* right before it starts with phase index 0 and moves-in-phase 0.
C9_ContextChangeStartsAfresh ==
    ( /\ call.op = "navigate" /\ call.prev_op = "navigate"
      /\ call.prev_location # call.location_name ) =>
        /\ call.pre._CURRENT_PHASE = 0
        /\ call.pre._PHASE_MOVE_COUNT = 0

-----------------------------------------------------------------------------
(* The movement amplifier on its own: a route and a coefficient map are drawn,
   _apply_movement_coefficients is applied to them *)

MaxRun == 5

\* routes: up to MaxRun UP, then up to two RIGHT, then at most one DOWN
Routes ==
    {Repeat("UP", u) \o Repeat("RIGHT", r) \o Repeat("DOWN", d) :
        u \in 0..MaxRun, r \in 0..2, d \in 0..1}

\* coefficients as the priority tokens write them
CoefficientTexts ==
    {<<"0", ".", "5">>, <<"1">>, <<"1", ".", "0">>, <<"1", ".", "5">>,
     <<"1", ".", "6">>, <<"1", ".", "8">>, <<"2">>}

CoefficientDirections == {NORTH, EAST, SOUTH}

\* dicts direction -> text with at most two entries, in every insertion order
CoefficientMaps ==
    {<< >>}
    \cup {<<<<d, t>>>> : d \in CoefficientDirections, t \in CoefficientTexts}
    \cup {<<<<ds[1], t1>>, <<ds[2], t2>>>> :
            ds \in {p \in CoefficientDirections \X CoefficientDirections : p[1] # p[2]},
            t1 \in CoefficientTexts, t2 \in CoefficientTexts}

\* the dict of floats the parser builds from the texts (line 417)
FloatsOf(texts) == [i \in 1..Len(texts) |-> <<texts[i][1], float(texts[i][2])>>]

InitAmplify ==
    /\ _LAST_MAP_STATE = None
    /\ _STUCK_COUNTER = 0
    /\ _LAST_PRIORITY_USED = None
    /\ _MOVEMENT_HISTORY = << >>
    /\ _CURRENT_PHASE = 0
    /\ _PHASE_MOVE_COUNT = 0
    /\ ncalls = 0
    /\ \E path \in Routes, texts \in CoefficientMaps :
           call = [op |-> "input", path |-> path, texts |-> texts,
                   coefficients |-> FloatsOf(texts), result |-> << >>]

Amplify ==
    /\ call.op = "input"
    /\ call' = [call EXCEPT !.op = "amplified",
                            !.result = _apply_movement_coefficients(call.path,
                                                                    call.coefficients)]
    /\ ncalls' = ncalls + 1
    /\ UNCHANGED <<_LAST_MAP_STATE, _STUCK_COUNTER, _LAST_PRIORITY_USED,
                   _MOVEMENT_HISTORY, _CURRENT_PHASE, _PHASE_MOVE_COUNT>>

NextAmplify == Amplify

SpecAmplify == InitAmplify /\ [][NextAmplify]_vars

-----------------------------------------------------------------------------
(* Properties of the movement amplifier *)

One == [int |-> 1, frac |-> << >>]

\* the steps of move appended to the route
Appended(move) == Count(call.result, move) - Count(call.path, move)

HasCoefficient(move) ==
    \E i \in 1..Len(call.coefficients) :
        direction_to_movement(call.coefficients[i][1]) = move

\* C11: when every coefficient of the map is 1.0, the amplifier returns the route
\* unchanged, same moves in the same order.
C11_AllOnesIsIdentity ==
    (/\ call.op = "amplified"
     /\ \A i \in 1..Len(call.coefficients) : call.coefficients[i][2] = One)
        => call.result = call.path

\* C11 witness: a map of two coefficients 1.0, written 1 and 1.0, for moves that
\* both occur in the route
C11_Witness ==
    /\ call.op = "amplified"
    /\ Len(call.coefficients) = 2
    /\ call.texts[1][2] # call.texts[2][2]
    /\ \A i \in 1..2 : /\ call.coefficients[i][2] = One
                       /\ Count(call.path, direction_to_movement(call.coefficients[i][1])) > 0
    /\ call.result = call.path

\* C12: the route is an unchanged prefix of the amplified route, which is at
\* least as long: extra steps are only appended at the end.
C12_RouteIsPrefix ==
    call.op = "amplified" =>
        /\ Len(call.result) >= Len(call.path)
        /\ SubSeq(call.result, 1, Len(call.path)) = call.path

\* C12 witness: extra steps were appended for a move that is not the first of a
\* route of several moves
C12_Witness ==
    /\ call.op = "amplified"
    /\ Len(call.result) > Len(call.path)
    /\ Len(call.path) >= 2
    /\ call.result[Len(call.result)] # call.path[1]
    /\ SubSeq(call.result, 1, Len(call.path)) = call.path

\* max(0, ceil(n * (c - 1))) for the coefficient c written by text
ExactExtra(n, text) ==
    IF CeilDiv(n * (FloatOf(text, 1, 0, 0).num - FloatOf(text, 1, 0, 0).den),
               FloatOf(text, 1, 0, 0).den) > 0
    THEN CeilDiv(n * (FloatOf(text, 1, 0, 0).num - FloatOf(text, 1, 0, 0).den),
                 FloatOf(text, 1, 0, 0).den)
    ELSE 0

\* C13: for a direction with coefficient c whose move occurs n > 0 times in the
\* route, exactly max(0, ceil(n * (c - 1))) steps of that move are appended; a move
\* that does not occur in the route, or whose direction has no coefficient, gets
\* no extra steps.
C13_ExtraStepsExact ==
    call.op = "amplified" =>
        /\ \A i \in 1..Len(call.texts) :
               Count(call.path, direction_to_movement(call.texts[i][1])) > 0 =>
                   Appended(direction_to_movement(call.texts[i][1]))
                       = ExactExtra(Count(call.path, direction_to_movement(call.texts[i][1])),
                                    call.texts[i][2])
        /\ \A move \in {"UP", "DOWN", "LEFT", "RIGHT"} :
               (Count(call.path, move) = 0 \/ ~HasCoefficient(move)) => Appended(move) = 0

-----------------------------------------------------------------------------
(* The goal selector on its own: a tile window, a direction and the collaborators'
   answers are drawn; _path_to_direction is applied to them, and _is_dead_end to
   the cells of the grid *)

\* 5x5 window, a wall across the middle row with a gap at its east end
WallMap ==
    << TileRow(<<".", ".", ".", ".", ".">>),
       TileRow(<<".", ".", ".", ".", ".">>),
       TileRow(<<"#", "#", "#", "#", ".">>),
       TileRow(<<".", ".", ".", ".", ".">>),
       TileRow(<<".", ".", ".", ".", ".">>) >>

\* the symbols a single tile of a window is changed to
VariantSymbols == {"#", "D", "S"}

\* tiles with the symbol at row r, column c replaced
WithTile(tiles, r, c, symbol) ==
    [i \in 1..Len(tiles) |->
        [j \in 1..Len(tiles[i]) |-> IF i = r /\ j = c THEN Tile(symbol) ELSE tiles[i][j]]]

\* 8 rows of 5 tiles: four open rows behind a wall without a gap, with more
\* tiles than MaxCandidates north of the bottom row
TallMap ==
    << TileRow(<<".", ".", ".", ".", ".">>),
       TileRow(<<".", ".", ".", ".", ".">>),
       TileRow(<<".", ".", ".", ".", ".">>),
       TileRow(<<".", ".", ".", ".", ".">>),
       TileRow(<<"#", "#", "#", "#", "#">>),
       TileRow(<<".", ".", ".", ".", ".">>),
       TileRow(<<".", ".", ".", ".", ".">>),
       TileRow(<<".", ".", ".", ".", ".">>) >>

\* 5x5 window in which the tiles north-east and east of the centre are blocked
\* or closed in, and the east column is open further south
EastColumnMap ==
    << TileRow(<<".", ".", "#", ".", ".">>),
       TileRow(<<".", ".", ".", "#", ".">>),
       TileRow(<<".", ".", ".", "#", ".">>),
       TileRow(<<".", ".", ".", ".", ".">>),
       TileRow(<<".", ".", ".", ".", ".">>) >>

\* the open and the wall window, each with one tile changed, the tall one and
\* the one with the east column
GoalTiles ==
    {OpenMap, WallMap, TallMap, EastColumnMap}
    \cup {WithTile(tiles, r, c, symbol) :
            tiles \in {OpenMap, WallMap}, r \in 1..5, c \in 1..5, symbol \in VariantSymbols}

\* where the grid builder puts the player marker: the centre, the middle of the
\* bottom row of a 5-row window, next to the middle of the west column, the middle
\* of the bottom row of an 8-row window (no marker on a smaller one)
Markers == {<< >>, <<2, 4>>, <<1, 2>>, <<2, 7>>}

\* the path primitive answers every request, or raises for the corner goals
FaultyGoals == {{}, {<<0, 0>>, <<4, 0>>, <<0, 4>>, <<4, 4>>}}

GoalEnvs ==
    {[builder |-> "ok", astar |-> "route", faulty |-> faulty, marker |-> marker] :
        faulty \in FaultyGoals, marker \in Markers}

NoSelection == [path |-> << >>, goal |-> << >>, requests |-> 0, fault |-> FALSE]

InitGoal ==
    /\ _LAST_MAP_STATE = None
    /\ _STUCK_COUNTER = 0
    /\ _LAST_PRIORITY_USED = None
    /\ _MOVEMENT_HISTORY = << >>
    /\ _CURRENT_PHASE = 0
    /\ _PHASE_MOVE_COUNT = 0
    /\ ncalls = 0
    /\ \E tiles \in GoalTiles, direction \in DirectionNames, env \in GoalEnvs :
           call = [op |-> "input", tiles |-> tiles, direction |-> direction, env |-> env,
                   grid |-> format_map_grid(tiles, env),
                   player |-> FindPlayer(format_map_grid(tiles, env)),
                   result |-> NoSelection, pos |-> << >>, dead_end |-> FALSE]

UnchangedGlobals ==
    UNCHANGED <<_LAST_MAP_STATE, _STUCK_COUNTER, _LAST_PRIORITY_USED,
                _MOVEMENT_HISTORY, _CURRENT_PHASE, _PHASE_MOVE_COUNT>>

\* _path_to_direction(state_data, direction, location_name)
SelectGoalCall ==
    /\ call.op = "input"
    /\ call' = [call EXCEPT !.op = "selected",
                            !.result = _path_to_direction(StateData("", <<0, 0>>,
                                                                    call.tiles, "full"),
                                                          call.direction, call.env)]
    /\ ncalls' = ncalls + 1
    /\ UnchangedGlobals

\* _is_dead_end(grid, pos, direction) for a cell of the grid
DeadEndCall ==
    /\ call.op = "input"
    /\ call.env.faulty = {}
    /\ \E pos \in (0..4) \X (0..4) :
           call' = [call EXCEPT !.op = "dead_end", !.pos = pos,
                                !.dead_end = _is_dead_end(call.grid, pos, call.direction)]
    /\ ncalls' = ncalls + 1
    /\ UnchangedGlobals

NextGoal == SelectGoalCall \/ DeadEndCall

SpecGoal == InitGoal /\ [][NextGoal]_vars

-----------------------------------------------------------------------------
(* Properties of the goal selector *)

RouteSelected == call.op = "selected" /\ call.result.path # << >>

\* progress of the selected goal along the four axes, in grid units
GoalNorth == call.player[2] - call.result.goal[2]
GoalSouth == call.result.goal[2] - call.player[2]
GoalEast == call.result.goal[1] - call.player[1]
GoalWest == call.player[1] - call.result.goal[1]

MinProgress == 2

\* C14: whenever the goal selector returns a route, its goal lies at least 2 units
\* further than the player along the intended axis: two rows up for NORTH, two rows
\* down for SOUTH, two columns right for EAST, two columns left for WEST, and for a
\* diagonal direction at least 2 units along one of its two axes.
C14_GoalTwoUnitsFurther ==
    RouteSelected =>
        CASE call.direction = NORTH -> GoalNorth >= MinProgress
          [] call.direction = SOUTH -> GoalSouth >= MinProgress
          [] call.direction = EAST -> GoalEast >= MinProgress
          [] call.direction = WEST -> GoalWest >= MinProgress
          [] call.direction = NORTHEAST -> GoalNorth >= MinProgress \/ GoalEast >= MinProgress
          [] call.direction = NORTHWEST -> GoalNorth >= MinProgress \/ GoalWest >= MinProgress
          [] call.direction = SOUTHEAST -> GoalSouth >= MinProgress \/ GoalEast >= MinProgress
          [] call.direction = SOUTHWEST -> GoalSouth >= MinProgress \/ GoalWest >= MinProgress

\* C14 witness: a route returned for a diagonal direction whose goal is two rows
\* north of the player and less than two columns east of it
C14_Witness ==
    /\ RouteSelected
    /\ call.direction = NORTHEAST
    /\ GoalNorth >= MinProgress
    /\ GoalEast < MinProgress

-----------------------------------------------------------------------------
(* Properties of the planner: the returned moves on the grid *)

\* the grid of the planning call and the player marker on it
CallGrid == format_map_grid(call.state_data.tiles, call.env)

CallHasGrid ==
    /\ PlanningCallMade
    /\ call.state_data.present /\ call.state_data.tiles # << >>
    /\ call.env.builder = "ok"

\* the cell reached from pos by the first k of the actions, each cardinal move
\* taking one step
RECURSIVE CellAfter(_, _, _)
CellAfter(pos, items, k) ==
    IF k = 0 THEN pos
    ELSE IF items[k] \in CardinalMoves THEN Step(CellAfter(pos, items, k - 1), items[k])
    ELSE CellAfter(pos, items, k - 1)

BlockedOrWater == {"#", "W"}

OnBlockedOrWater(grid, cell) ==
    InGrid(grid, cell[1], cell[2]) /\ GridAt(grid, cell[1], cell[2]) \in BlockedOrWater

\* action k of the returned sequence is a cardinal move onto a Blocked or Water tile
TargetsBlocked(k) ==
    /\ call.action.items[k] \in CardinalMoves
    /\ OnBlockedOrWater(CallGrid, CellAfter(FindPlayer(CallGrid), call.action.items, k))

\* C15 as stated: no cardinal move of a returned action sequence, executed from
\* the player's position on the grid, targets a Blocked or Water tile, be it of the
\* routed prefix, of the amplifier's extra steps or of a zig-zag.
C15_NoMoveTargetsBlocked ==
    CallHasGrid => \A k \in 1..Len(call.action.items) : ~TargetsBlocked(k)

\* C15 amended: when the sequence was built from a route, the moves of the routed
\* prefix lead from the player over tiles of the grid that are neither Blocked nor
\* Water.
C15_RoutedPrefixAvoidsBlocked ==
    (CallHasGrid /\ call.plan.shape = "routed") =>
        /\ SubSeq(call.action.items, 1, Len(call.plan.route)) = call.plan.route
        /\ \A k \in 1..Len(call.plan.route) :
               /\ InGrid(CallGrid, CellAfter(FindPlayer(CallGrid), call.plan.route, k)[1],
                         CellAfter(FindPlayer(CallGrid), call.plan.route, k)[2])
               /\ ~TargetsBlocked(k)

\* C15 witness: a routed sequence on the window with the blocked tile east of the
\* player, its route turning before that tile and followed by extra steps
C15_Witness ==
    /\ CallHasGrid /\ call.plan.shape = "routed"
    /\ call.state_data.tiles = PillarMap
    /\ Len(call.plan.route) >= 3
    /\ Len(call.action.items) > Len(call.plan.route) + 1
    /\ \A k \in 1..Len(call.plan.route) : ~TargetsBlocked(k)


\* the neighbour offset opposite to the travel direction, a diagonal travelling
\* along its north / south axis
OppositeOffset(direction) ==
    CASE direction \in {NORTH, NORTHEAST, NORTHWEST} -> <<0, 1>>
      [] direction \in {SOUTH, SOUTHEAST, SOUTHWEST} -> <<0, -1>>
      [] direction = EAST -> <<-1, 0>>
      [] direction = WEST -> <<1, 0>>

\* the three neighbour offsets other than the opposite one
ForwardOffsets(direction) ==
    {<<0, -1>>, <<0, 1>>, <<-1, 0>>, <<1, 0>>} \ {OppositeOffset(direction)}

\* the symbol of the Walkable tile; D is a Door, S Stairs, P the PlayerMarker
Walkable == {"."}

\* the neighbours of pos at the forward offsets that are Walkable tiles
WalkableForward(grid, pos, direction) ==
    {o \in ForwardOffsets(direction) :
        /\ InGrid(grid, pos[1] + o[1], pos[2] + o[2])
        /\ GridAt(grid, pos[1] + o[1], pos[2] + o[2]) \in Walkable}

\* C16: the dead-end filter classifies a destination as a dead end if and only if
\* fewer than 2 of its three neighbours other than the one opposite the travel
\* direction are Walkable tiles, a Door, Stairs, PlayerMarker or Unknown neighbour
\* not counting as Walkable.
C16_DeadEndIffFewWalkable ==
    call.op = "dead_end" =>
        (call.dead_end <=>
            Cardinality(WalkableForward(call.grid, call.pos, call.direction)) < 2)


\* the wall scenario: direction NORTH, the path primitive answering every request,
\* the player in the middle of the bottom row and, two rows north of it, a wall with
\* a gap at its east end
WallScenario ==
    /\ call.op = "selected"
    /\ call.direction = NORTH
    /\ call.env.faulty = {}
    /\ call.tiles = WallMap /\ call.player = <<2, 4>>

WallRow == call.player[2] - 2

GapCell == <<4, WallRow>>

\* the route passes through the cell
RouteThrough(cell) ==
    \E k \in 1..Len(call.result.path) :
        CellAfter(call.player, call.result.path, k) = cell

-----------------------------------------------------------------------------
(* Properties of the priority resolver *)

\* entry i of the list is handed to the goal selector and gets a route from it
EntryRouted(state_data, priority_list, env, i) ==
    /\ ~StartsWith(priority_list[i], DOOR_)
    /\ SelectGoal(state_data, _parse_priority_with_coefficients(priority_list[i]).direction,
                  env).path # << >>

\* the earliest entry of the list that gets a route; 0 if none does
FirstRouted(state_data, priority_list, env) ==
    IF \E i \in 1..Len(priority_list) : EntryRouted(state_data, priority_list, env, i)
    THEN CHOOSE i \in 1..Len(priority_list) :
            /\ EntryRouted(state_data, priority_list, env, i)
            /\ \A j \in 1..(i - 1) : ~EntryRouted(state_data, priority_list, env, j)
    ELSE 0

\* the entries among the first n that are handed to the goal selector
Consulted(priority_list, n) ==
    {j \in 1..n : ~StartsWith(priority_list[j], DOOR_)}

\* the output for entry i: its route, the amplifier's extra steps for it, then A
RouteExtrasConfirm(state_data, priority_list, env, i) ==
    _apply_movement_coefficients(
        SelectGoal(state_data, _parse_priority_with_coefficients(priority_list[i]).direction,
                   env).path,
        _parse_priority_with_coefficients(priority_list[i]).coefficients) \o <<"A">>

\* C18: a planning call that is not stuck returns the result for the earliest entry
\* of the priority list for which the goal selector yields a route: that entry is
\* the one used, the entries after it are not handed to the goal selector, and the
\* output is its route, then the amplifier's extra steps, then A.
C18_FirstRoutedEntryWins ==
    ( /\ PlanningCallMade
      /\ ~call.plan.stuck
      /\ FirstRouted(call.state_data, call.priority_list, call.env) # 0 ) =>
        /\ call.plan.used = FirstRouted(call.state_data, call.priority_list, call.env)
        /\ Len(call.plan.tried)
             = Cardinality(Consulted(call.priority_list, call.plan.used))
        /\ call.action.items
             = RouteExtrasConfirm(call.state_data, call.priority_list, call.env,
                                  call.plan.used)
        /\ SubSeq(call.action.items, 1, Len(call.plan.route)) = call.plan.route

\* C18 witness: the third entry of a list of four is used, after a DOOR_ entry that
\* was skipped and an entry that got no route, and extra steps follow the route
C18_Witness ==
    /\ PlanningCallMade /\ ~call.plan.stuck
    /\ call.priority_list = <<DOOR_NORTH, Unparseable, N2E3, WEST>>
    /\ call.plan.used = 3
    /\ call.plan.tried = <<Unparseable, NORTHEAST>>
    /\ Len(call.plan.route) > 0
    /\ Len(call.action.items) > Len(call.plan.route) + 1


\* the planning call has no grid to plan on: the state or its tile data is missing
\* or empty, the grid builder gives no grid, or the grid has no player marker
NoGridOrNoPlayer ==
    /\ PlanningCallMade
    /\ \/ ~call.state_data.present
       \/ call.state_data.tiles = << >>
       \/ call.env.builder \in {"null", "noplayer"}

\* C19 as stated: without tile data or without a player marker on the grid, the
\* planning call yields an empty action list.
C19_NoGridGivesEmptyList ==
    NoGridOrNoPlayer => call.action.items = << >>

\* C19 amended: without tile data or without a player marker on the grid, no
\* request reaches the path primitive and no entry gets a route; the planning call
\* then returns the 8-step zig-zag of the first entry's base direction followed by
\* A, or, when it is classified stuck, the stuck recovery: never an empty list.
C19_NoGridGivesZigzag ==
    NoGridOrNoPlayer =>
        /\ call.plan.requests = 0
        /\ call.plan.route = << >>
        /\ call.plan.shape \in {"fallback", "stuck"}
        /\ call.plan.shape = "fallback" =>
               /\ Len(call.plan.tried) = Cardinality(Consulted(call.priority_list,
                                                               Len(call.priority_list)))
               /\ call.action.items
                    = PrimaryZigzag(call.priority_list, FallbackZigzagLength) \o <<"A">>
        /\ call.plan.shape = "stuck" =>
               call.action.items
                 = StuckPrefix \o PrimaryZigzag(call.priority_list, StuckZigzagLength)
                   \o <<"A">>

\* C19 witness: a grid without a player marker, two entries handed to the goal
\* selector in vain, the zig-zag fallback returned
C19_Witness ==
    /\ NoGridOrNoPlayer
    /\ call.state_data.present /\ call.state_data.tiles # << >>
    /\ call.env.builder = "noplayer"
    /\ call.plan.shape = "fallback"
    /\ Len(call.plan.tried) = 2
    /\ Len(call.action.items) = FallbackZigzagLength + 1

-----------------------------------------------------------------------------
(* Properties of the goal selector: faults of the path primitive *)

\* the candidates of the call, best first
CallCandidates == SortByScore(Candidates(call.grid, call.direction, call.player, 0))

\* candidate i is among those tried, the path primitive answers for it with a route
\* and it is no dead end
Selectable(candidates, i) ==
    /\ i <= MaxCandidates
    /\ candidates[i][2] \notin call.env.faulty
    /\ astar_pathfind(call.grid, call.player, candidates[i][2], call.env).path # << >>
    /\ ~_is_dead_end(call.grid, candidates[i][2], call.direction)

\* the path primitive raises for candidate i
Faulting(candidates, i) == i <= MaxCandidates /\ candidates[i][2] \in call.env.faulty

\* C20: a fault raised while one candidate is attempted abandons only that
\* candidate: the candidates after it are still attempted in order, so the goal
\* selector returns the route of the first candidate that has a usable route and is
\* no dead end.
C20_FaultAbandonsOneCandidate ==
    (call.op = "selected" /\ call.player # << >>) =>
        \A i \in 1..Len(CallCandidates) :
            ( /\ Selectable(CallCandidates, i)
              /\ \A j \in 1..(i - 1) : ~Selectable(CallCandidates, j) ) =>
                /\ call.result.path # << >>
                /\ call.result.goal = CallCandidates[i][2]

-----------------------------------------------------------------------------
(* The token parser on its own: a priority token is drawn,
   _parse_priority_with_coefficients is applied to it *)

\* the weights that tokens carry, as written
WeightTexts ==
    {<<"2">>, <<"3">>, <<"7">>, <<"1">>, <<"1", ".", "0">>, <<"1", ".", "5">>,
     <<"1", ".", "6">>, <<"2", ".">>}

Letters == {"N", "S", "E", "W"}

\* a token of one or two weighted letters
WeightedToken(letters, weights) ==
    IF Len(letters) = 1 THEN <<letters[1]>> \o weights[1]
    ELSE <<letters[1]>> \o weights[1] \o <<letters[2]>> \o weights[2]

\* what a token is made of: plain tokens have no letters
TokenParts ==
    {[token |-> name, letters |-> << >>, weights |-> << >>] : name \in DirectionNames}
    \cup {[token |-> name, letters |-> << >>, weights |-> << >>] :
            name \in {Unparseable, DOOR_NORTH, <<"n", "o", "r", "t", "h">>}}
    \cup {[token |-> WeightedToken(<<l>>, <<w>>), letters |-> <<l>>, weights |-> <<w>>] :
            l \in Letters, w \in WeightTexts}
    \cup {[token |-> WeightedToken(<<l1, l2>>, <<w1, w2>>),
           letters |-> <<l1, l2>>, weights |-> <<w1, w2>>] :
            l1 \in Letters, l2 \in Letters, w1 \in WeightTexts, w2 \in WeightTexts}

NoParse == [direction |-> << >>, coefficients |-> << >>]

InitParse ==
    /\ _LAST_MAP_STATE = None
    /\ _STUCK_COUNTER = 0
    /\ _LAST_PRIORITY_USED = None
    /\ _MOVEMENT_HISTORY = << >>
    /\ _CURRENT_PHASE = 0
    /\ _PHASE_MOVE_COUNT = 0
    /\ ncalls = 0
    /\ \E parts \in TokenParts :
           call = [op |-> "input", token |-> parts.token, letters |-> parts.letters,
                   weights |-> parts.weights, result |-> NoParse]

Parse ==
    /\ call.op = "input"
    /\ call' = [call EXCEPT !.op = "parsed",
                            !.result = _parse_priority_with_coefficients(call.token)]
    /\ ncalls' = ncalls + 1
    /\ UnchangedGlobals

NextParse == Parse

SpecParse == InitParse /\ [][NextParse]_vars

-----------------------------------------------------------------------------
(* Properties of the token parser *)

\* the diagonal a vertical and a horizontal letter stand for
DiagonalOf(vertical, horizontal) ==
    CASE vertical = "N" /\ horizontal = "E" -> NORTHEAST
      [] vertical = "N" /\ horizontal = "W" -> NORTHWEST
      [] vertical = "S" /\ horizontal = "E" -> SOUTHEAST
      [] vertical = "S" /\ horizontal = "W" -> SOUTHWEST

CardinalOf(letter) ==
    CASE letter = "N" -> NORTH
      [] letter = "S" -> SOUTH
      [] letter = "E" -> EAST
      [] letter = "W" -> WEST

\* the double nearest to the weight written by text
WeightOf(text) == NearestDouble(FloatOf(text, 1, 0, 0))

VerticalThenHorizontal ==
    /\ Len(call.letters) = 2
    /\ call.letters[1] \in {"N", "S"}
    /\ call.letters[2] \in {"E", "W"}

\* C21: a plain direction name parses to itself with an empty coefficient map; a
\* vertical letter with a weight followed by a horizontal letter with a weight
\* parses to their diagonal with the map {vertical: w1, horizontal: w2}; a single
\* weighted letter parses to its cardinal direction, with its weight.
C21_TokenParsing ==
    call.op = "parsed" =>
        /\ call.token \in DirectionNames =>
               call.result = [direction |-> call.token, coefficients |-> << >>]
        /\ VerticalThenHorizontal =>
               /\ call.result.direction = DiagonalOf(call.letters[1], call.letters[2])
               /\ call.result.coefficients
                    = << <<CardinalOf(call.letters[1]), WeightOf(call.weights[1])>>,
                         <<CardinalOf(call.letters[2]), WeightOf(call.weights[2])>> >>
        /\ Len(call.letters) = 1 =>
               /\ call.result.direction = CardinalOf(call.letters[1])
               /\ call.result.coefficients
                    = << <<CardinalOf(call.letters[1]), WeightOf(call.weights[1])>> >>

\* C21 witness: N1.5W7 parsed to NORTHWEST with {NORTH: 1.5, WEST: 7.0}
C21_Witness ==
    /\ call.op = "parsed"
    /\ call.token = <<"N", "1", ".", "5", "W", "7">>
    /\ call.result.direction = NORTHWEST
    /\ call.result.coefficients
         = << <<NORTH, [int |-> 1, frac |-> <<1>>]>>, <<WEST, [int |-> 7, frac |-> << >>]>> >>

-----------------------------------------------------------------------------
(* The zig-zag generator on its own: a direction and a length are drawn,
   _get_zigzag_pattern is applied to them *)

MaxLength == 16

\* direction arguments: the eight names and two that patterns does not hold
ZigzagDirections == DirectionNames \cup {Unparseable, << >>}

InitZigzag ==
    /\ _LAST_MAP_STATE = None
    /\ _STUCK_COUNTER = 0
    /\ _LAST_PRIORITY_USED = None
    /\ _MOVEMENT_HISTORY = << >>
    /\ _CURRENT_PHASE = 0
    /\ _PHASE_MOVE_COUNT = 0
    /\ ncalls = 0
    /\ \E direction \in ZigzagDirections, length \in 0..MaxLength :
           call = [op |-> "input", direction |-> direction, length |-> length,
                   result |-> << >>]

Zigzag ==
    /\ call.op = "input"
    /\ call' = [call EXCEPT !.op = "zigzag",
                            !.result = _get_zigzag_pattern(call.direction, call.length)]
    /\ ncalls' = ncalls + 1
    /\ UnchangedGlobals

NextZigzag == Zigzag

SpecZigzag == InitZigzag /\ [][NextZigzag]_vars

-----------------------------------------------------------------------------
(* Properties of the zig-zag generator *)

\* the 4-step motif of each direction: a cardinal direction repeats its move, a
\* diagonal takes two steps along its vertical axis, one along its horizontal
\* axis and one step back along the vertical axis
Motif(direction) ==
    LET vertical == IF direction \in {NORTH, NORTHEAST, NORTHWEST} THEN "UP" ELSE "DOWN"
        back == IF vertical = "UP" THEN "DOWN" ELSE "UP"
        horizontal == IF direction \in {EAST, NORTHEAST, SOUTHEAST} THEN "RIGHT" ELSE "LEFT"
    IN  IF direction \in {NORTH, SOUTH} THEN <<vertical, vertical, vertical, vertical>>
        ELSE IF direction \in {EAST, WEST}
             THEN <<horizontal, horizontal, horizontal, horizontal>>
             ELSE <<vertical, vertical, horizontal, back>>

\* C22: for every direction and length L >= 0 the generator returns exactly L
\* moves, the i-th (from 0) being element i mod 4 of the direction's motif; a
\* direction that is not one of the eight yields L UP moves.
C22_ZigzagLengthAndMotif ==
    call.op = "zigzag" =>
        /\ Len(call.result) = call.length
        /\ call.direction \in DirectionNames =>
               \A i \in 0..(call.length - 1) :
                   call.result[i + 1] = Motif(call.direction)[(i % 4) + 1]
        /\ call.direction \notin DirectionNames =>
               \A i \in 1..call.length : call.result[i] = "UP"

\* C22 witness: NORTHEAST with length 6 gives UP, UP, RIGHT, DOWN, UP, UP
C22_Witness ==
    /\ call.op = "zigzag"
    /\ call.direction = NORTHEAST
    /\ call.length = 6
    /\ call.result = <<"UP", "UP", "RIGHT", "DOWN", "UP", "UP">>

\* displacement of the first k moves along the axis whose forward move is given
OppositeMove(move) ==
    CASE move = "UP" -> "DOWN"
      [] move = "DOWN" -> "UP"
      [] move = "LEFT" -> "RIGHT"
      [] move = "RIGHT" -> "LEFT"

Displacement(moves, k, forward) ==
    Count(SubSeq(moves, 1, k), forward) - Count(SubSeq(moves, 1, k), OppositeMove(forward))

\* the forward moves of the axes of a direction
ForwardMoves(direction) ==
    (IF direction \in {NORTH, NORTHEAST, NORTHWEST} THEN {"UP"} ELSE {})
    \cup (IF direction \in {SOUTH, SOUTHEAST, SOUTHWEST} THEN {"DOWN"} ELSE {})
    \cup (IF direction \in {EAST, NORTHEAST, SOUTHEAST} THEN {"RIGHT"} ELSE {})
    \cup (IF direction \in {WEST, NORTHWEST, SOUTHWEST} THEN {"LEFT"} ELSE {})

EmittedLength ==
    /\ call.op = "zigzag"
    /\ call.direction \in DirectionNames
    /\ call.length \in {FallbackZigzagLength, StuckZigzagLength}

NetForward ==
    \A forward \in ForwardMoves(call.direction) :
        /\ Displacement(call.result, call.length, forward) > 0
        /\ \A k \in 1..call.length : Displacement(call.result, k, forward) >= 0

\* positions i whose move is immediately followed by its opposite
Reversals == {i \in 1..(Len(call.result) - 1) : call.result[i + 1] = OppositeMove(call.result[i])}

-----------------------------------------------------------------------------
(* Two planning calls side by side: _path_with_priority_list is applied, from
   the same globals and on the same state_data, to two one-entry priority lists
   whose entries name the same direction with different weights *)

\* entries <<token, unit>> by direction; unit: the token is the plain name or
\* carries the weight 1 on every letter
WeightFamilies ==
    { { <<NORTHEAST, TRUE>>, <<<<"N", "1", "E", "1">>, TRUE>>,
        <<<<"N", "1", ".", "0", "E", "1", ".", "0">>, TRUE>>, <<N2E3, FALSE>>,
        <<<<"N", "1", ".", "5", "E", "1">>, FALSE>> },
      { <<NORTHWEST, TRUE>>, <<<<"N", "1", "W", "1">>, TRUE>>,
        <<<<"N", "2", "W", "1", ".", "6">>, FALSE>> },
      { <<EAST, TRUE>>, <<<<"E", "1">>, TRUE>>, <<<<"E", "2">>, FALSE>> },
      { <<SOUTH, TRUE>>, <<<<"S", "1", ".", "0">>, TRUE>>, <<<<"S", "3">>, FALSE>> } }

EntryPairs ==
    UNION {{p \in family \X family : p[1] # p[2]} : family \in WeightFamilies}

InitPair ==
    /\ _STUCK_COUNTER = 0
    /\ _LAST_PRIORITY_USED = None
    /\ _MOVEMENT_HISTORY = << >>
    /\ _CURRENT_PHASE = 0
    /\ _PHASE_MOVE_COUNT = 0
    /\ ncalls = 0
    /\ \E pos \in Positions, scene \in Scenes, pair \in EntryPairs :
          /\ call = [op |-> "input",
                     state_data |-> StateData("Route 104", pos, scene[1], "full"),
                     env |-> scene[2], first |-> pair[1], second |-> pair[2],
                     left |-> NoPlan, right |-> NoPlan]
          /\ _LAST_MAP_STATE \in {None, _get_map_state_hash(call.state_data)}

\* both calls start from the globals of the state, which are left as they are
PlanPair ==
    /\ call.op = "input"
    /\ call' = [call EXCEPT
                  !.op = "planned",
                  !.left = _path_with_priority_list(call.state_data, <<call.first[1]>>,
                               call.env, _LAST_MAP_STATE, _STUCK_COUNTER),
                  !.right = _path_with_priority_list(call.state_data, <<call.second[1]>>,
                               call.env, _LAST_MAP_STATE, _STUCK_COUNTER)]
    /\ ncalls' = ncalls + 1
    /\ UnchangedGlobals

NextPair == PlanPair

SpecPair == InitPair /\ [][NextPair]_vars

-----------------------------------------------------------------------------
(* Properties of weighted priority entries *)

IsPrefix(s, t) == Len(s) <= Len(t) /\ SubSeq(t, 1, Len(s)) = s

\* C24: two entries with the same base direction and different weights, planned
\* from the same globals on the same state, get the same classification, goal and
\* route; a found route opens both outputs; without a route the outputs are
\* equal; and the plain name and the entry with weight 1 on every letter give
\* the same action sequence.
C24_WeightsOnlyAmplify ==
    call.op = "planned" =>
        /\ call.left.shape = call.right.shape
        /\ call.left.route = call.right.route
        /\ call.left.goal = call.right.goal
        /\ call.left.requests = call.right.requests
        /\ IsPrefix(call.left.route, call.left.action.items)
        /\ IsPrefix(call.right.route, call.right.action.items)
        /\ call.left.shape # "routed" => call.left.action.items = call.right.action.items
        /\ (call.first[2] /\ call.second[2]) =>
               call.left.action.items = call.right.action.items

\* C24 witness: NORTHEAST and N2E3 get the same route, N2E3 with extra steps
C24_Witness ==
    /\ call.op = "planned"
    /\ call.first[1] = NORTHEAST
    /\ call.second[1] = N2E3
    /\ call.left.shape = "routed"
    /\ call.left.route = call.right.route
    /\ call.left.action.items = Append(call.left.route, "A")
    /\ Len(call.right.action.items) > Len(call.left.action.items)

-----------------------------------------------------------------------------
(* Properties of the goal selector: the kind of the goal tile *)

\* the symbols of the tile kinds other than Walkable: Blocked, Water, Door,
\* Stairs, PlayerMarker, Unknown
OtherKinds == {"#", "W", "D", "S", "P", "?"}

\* C25: every goal the goal selector considers (its candidates) or returns is a
\* Walkable tile, never a Door, Stairs, PlayerMarker, Unknown, Blocked or Water
\* tile.
C25_GoalIsWalkable ==
    (call.op = "selected" /\ call.player # << >>) =>
        /\ \A i \in 1..Len(CallCandidates) :
               GridAt(call.grid, CallCandidates[i][2][1], CallCandidates[i][2][2])
                   \notin OtherKinds
        /\ call.result.goal # << >> =>
               GridAt(call.grid, call.result.goal[1], call.result.goal[2]) \notin OtherKinds

-----------------------------------------------------------------------------
(* Properties of the goal selector: which candidate is returned *)

\* candidate i has a route from the path primitive and is no dead end
Viable(candidates, i) ==
    /\ candidates[i][2] \notin call.env.faulty
    /\ astar_pathfind(call.grid, call.player, candidates[i][2], call.env).path # << >>
    /\ ~_is_dead_end(call.grid, candidates[i][2], call.direction)

\* C26: the goal selector returns the route of the best-scored candidate, among
\* the 20 best, that has a route and is no dead end; it makes at most 20 requests
\* to the path primitive; and it returns empty only if no candidate of any rank
\* has a route and is no dead end.
C26_BestViableCandidate ==
    (call.op = "selected" /\ call.player # << >>) =>
        /\ \A i \in 1..Len(CallCandidates) :
              ( /\ i <= MaxCandidates
                /\ Viable(CallCandidates, i)
                /\ \A j \in 1..(i - 1) : ~Viable(CallCandidates, j) ) =>
                  /\ call.result.goal = CallCandidates[i][2]
                  /\ call.result.path
                       = astar_pathfind(call.grid, call.player, CallCandidates[i][2],
                                        call.env).path
        /\ call.result.requests <= MaxCandidates
        /\ call.result.path = << >> =>
              \A i \in 1..Len(CallCandidates) : ~Viable(CallCandidates, i)

\* the same without the last part, for calls in which the path primitive
\* raises no fault
BestViableOfTwenty ==
    (call.op = "selected" /\ call.player # << >> /\ ~call.result.fault) =>
        /\ \A i \in 1..Len(CallCandidates) :
              ( /\ i <= MaxCandidates
                /\ Viable(CallCandidates, i)
                /\ \A j \in 1..(i - 1) : ~Viable(CallCandidates, j) ) =>
                  /\ call.result.goal = CallCandidates[i][2]
                  /\ call.result.path
                       = astar_pathfind(call.grid, call.player, CallCandidates[i][2],
                                        call.env).path
        /\ call.result.requests <= MaxCandidates
        /\ call.result.path = << >> =>
              \A i \in 1..Len(CallCandidates) : i <= MaxCandidates => ~Viable(CallCandidates, i)

\* no fault, the 20 best candidates fail and a candidate of lower rank would do
ViableBeyondTwenty ==
    /\ call.op = "selected" /\ call.player # << >> /\ call.env.faulty = {}
    /\ call.result.path = << >>
    /\ call.result.requests = MaxCandidates
    /\ \E i \in 1..Len(CallCandidates) : Viable(CallCandidates, i)

-----------------------------------------------------------------------------
(* Candidate scoring on its own: a direction, a player position and two tiles
   that pass the direction's filter are drawn, DIRECTION_SCORING is applied to
   both. Coordinates are the ones the lambdas receive (y grows northward). *)

\* grids are less than 100 wide and high
MaxCoordinate == 98

\* coordinates near both ends and in the middle of the range
Coordinates ==
    {0, 1, 2, 3, MaxCoordinate \div 2, MaxCoordinate - 2, MaxCoordinate - 1, MaxCoordinate}

RankPlayers ==
    {<<0, 0>>, <<0, MaxCoordinate>>, <<MaxCoordinate, 0>>, <<MaxCoordinate, MaxCoordinate>>,
     <<MaxCoordinate \div 2, MaxCoordinate \div 2>>}

\* the tiles that pass the filter of the direction
Filtered(direction, player) ==
    {t \in Coordinates \X Coordinates :
        DIRECTION_FILTERS(direction, player[1], player[2], t[1], t[2])}

InitRank ==
    /\ _LAST_MAP_STATE = None
    /\ _STUCK_COUNTER = 0
    /\ _LAST_PRIORITY_USED = None
    /\ _MOVEMENT_HISTORY = << >>
    /\ _CURRENT_PHASE = 0
    /\ _PHASE_MOVE_COUNT = 0
    /\ ncalls = 0
    /\ \E direction \in DirectionNames, player \in RankPlayers :
          \E a \in Filtered(direction, player), b \in Filtered(direction, player) :
              call = [op |-> "input", direction |-> direction, player |-> player,
                      a |-> a, b |-> b, score_a |-> 0, score_b |-> 0]

Rank ==
    /\ call.op = "input"
    /\ call' = [call EXCEPT
                  !.op = "scored",
                  !.score_a = DIRECTION_SCORING(call.direction, call.player[1],
                                                call.player[2], call.a[1], call.a[2]),
                  !.score_b = DIRECTION_SCORING(call.direction, call.player[1],
                                                call.player[2], call.b[1], call.b[2])]
    /\ ncalls' = ncalls + 1
    /\ UnchangedGlobals

NextRank == Rank

SpecRank == InitRank /\ [][NextRank]_vars

-----------------------------------------------------------------------------
(* Properties of the candidate scoring *)

Cardinals == {NORTH, SOUTH, EAST, WEST}

\* progress of tile t along the primary axis of the direction: the axis of a
\* cardinal direction, the north/south axis of a diagonal
PrimaryProgress(direction, player, t) ==
    CASE direction \in {NORTH, NORTHEAST, NORTHWEST} -> t[2] - player[2]
      [] direction \in {SOUTH, SOUTHEAST, SOUTHWEST} -> player[2] - t[2]
      [] direction = EAST -> t[1] - player[1]
      [] direction = WEST -> player[1] - t[1]

\* second component of the comparator's tuple, larger is better: minus the
\* lateral deviation for a cardinal direction, the progress along the east/west
\* axis for a diagonal
SecondaryKey(direction, player, t) ==
    CASE direction \in {NORTH, SOUTH} -> -Abs(t[1] - player[1])
      [] direction \in {EAST, WEST} -> -Abs(t[2] - player[2])
      [] direction \in {NORTHEAST, SOUTHEAST} -> t[1] - player[1]
      [] direction \in {NORTHWEST, SOUTHWEST} -> player[1] - t[1]

\* tuple comparison: s ranks strictly before t
TupleBefore(direction, player, s, t) ==
    \/ PrimaryProgress(direction, player, s) > PrimaryProgress(direction, player, t)
    \/ /\ PrimaryProgress(direction, player, s) = PrimaryProgress(direction, player, t)
       /\ SecondaryKey(direction, player, s) > SecondaryKey(direction, player, t)

\* C27: for every pair of candidates, ranking by the numeric score equals
\* ranking by the tuple comparator (progress descending, then deviation
\* ascending for a cardinal direction; primary progress descending, then
\* secondary progress descending for a diagonal); a candidate with more
\* progress has the higher score whatever the deviations.
C27_ScoreRanksAsTuple ==
    call.op = "scored" =>
        /\ (call.score_a > call.score_b)
               <=> TupleBefore(call.direction, call.player, call.a, call.b)
        /\ (call.score_b > call.score_a)
               <=> TupleBefore(call.direction, call.player, call.b, call.a)
        /\ PrimaryProgress(call.direction, call.player, call.a)
             > PrimaryProgress(call.direction, call.player, call.b)
               => call.score_a > call.score_b

\* C27 witness: NORTH, one row more of progress outranks no deviation against
\* a deviation of the whole width
C27_Witness ==
    /\ call.op = "scored"
    /\ call.direction = NORTH
    /\ call.player = <<0, 0>>
    /\ call.a = <<MaxCoordinate, 3>>
    /\ call.b = <<0, 2>>
    /\ call.score_a > call.score_b

-----------------------------------------------------------------------------
(* Properties of the goal selector: the side of a diagonal goal *)

Diagonals == {NORTHEAST, NORTHWEST, SOUTHEAST, SOUTHWEST}

\* the goal lies on the given side of the player (rows are counted from the top)
SouthOfPlayer == call.result.goal[2] > call.player[2]
NorthOfPlayer == call.result.goal[2] < call.player[2]
EastOfPlayer == call.result.goal[1] > call.player[1]
WestOfPlayer == call.result.goal[1] < call.player[1]

\* C28: the goal selected for a diagonal direction is never on the opposite side
\* of the player on either axis: a NORTHEAST goal is never south and never west
\* of the player, and likewise for the other three diagonals.
C28_DiagonalGoalNotOpposite ==
    (call.op = "selected" /\ call.result.goal # << >> /\ call.direction \in Diagonals) =>
        /\ call.direction \in {NORTHEAST, NORTHWEST} => ~SouthOfPlayer
        /\ call.direction \in {SOUTHEAST, SOUTHWEST} => ~NorthOfPlayer
        /\ call.direction \in {NORTHEAST, SOUTHEAST} => ~WestOfPlayer
        /\ call.direction \in {NORTHWEST, SOUTHWEST} => ~EastOfPlayer

\* the east/west half of C28, which the filters enforce: the goal of a
\* diagonal is strictly on the direction's side along the east/west axis
DiagonalGoalOnEastWestSide ==
    (call.op = "selected" /\ call.result.goal # << >> /\ call.direction \in Diagonals) =>
        /\ call.direction \in {NORTHEAST, SOUTHEAST} => EastOfPlayer
        /\ call.direction \in {NORTHWEST, SOUTHWEST} => WestOfPlayer

-----------------------------------------------------------------------------
(* Properties of the phase controller: advances within one call *)

\* the last operation was a navigation call answered by a handler with phases
PhasedCall ==
    call.op = "navigate" /\ RouterBranch(call.location_name) \in {"route104", "rustboro"}

\* what _track_movement counts for the returned action, starting from 0
CountedFromZero == _track_movement(call.action, << >>, 0)._PHASE_MOVE_COUNT

\* C29: a call of a handler with phases advances the phase index at most once
\* and plans once: the index grows by at most one, an advance starts the move
\* counter at 0, so that the re-entered handler plans instead of advancing again
\* and the counter it leaves holds the moves of this call only.
C29_AtMostOneAdvance ==
    PhasedCall =>
        /\ call.advances <= 1
        /\ _CURRENT_PHASE <= call.pre._CURRENT_PHASE + 1
        /\ _CURRENT_PHASE >= call.pre._CURRENT_PHASE
        /\ call.advances = 1 =>
               /\ _PHASE_MOVE_COUNT = IF call.tracked THEN CountedFromZero ELSE 0
               /\ RouterBranch(call.location_name) = "route104" => call.planned
        /\ call.advances = 0 => _PHASE_MOVE_COUNT >= call.pre._PHASE_MOVE_COUNT

\* C29 witness: a Route 104 call that started in phase 0 with 10 or more moves
\* advanced once, planned with the list of phase 1 and left fewer than 20 moves
C29_Witness ==
    /\ PhasedCall
    /\ RouterBranch(call.location_name) = "route104"
    /\ call.pre._CURRENT_PHASE = 0
    /\ call.pre._PHASE_MOVE_COUNT >= 10
    /\ call.advances = 1
    /\ call.planned
    /\ _CURRENT_PHASE = 1
    /\ _PHASE_MOVE_COUNT > 0
    /\ _PHASE_MOVE_COUNT < 20

-----------------------------------------------------------------------------
(* Properties of the stuck counter *)

\* C30: between operations the consecutive-no-progress counter is 0; inside a
\* planning call it is at most 1 after the fingerprint comparison, it is 1
\* exactly when the fingerprint equals the stored one, and such a call is
\* classified stuck and has reset the counter when it returns.
C30_CounterZeroBetweenCalls ==
    /\ _STUCK_COUNTER = 0
    /\ PlanningCallMade =>
           /\ call.pre._STUCK_COUNTER = 0
           /\ call.plan.counter_checked \in {0, 1}
           /\ call.plan.counter_checked = 1 <=> call.fp = call.pre._LAST_MAP_STATE
           /\ call.plan.counter_checked = 1 =>
                  /\ call.plan.stuck
                  /\ call.plan.by_fingerprint
                  /\ call.plan.shape = "stuck"

\* C30 witness: a planning call whose fingerprint comparison took the counter to
\* 1, classified stuck, with the counter back at 0 afterwards
C30_Witness ==
    /\ PlanningCallMade
    /\ call.fp # None
    /\ call.plan.counter_checked = 1
    /\ call.plan.stuck
    /\ _STUCK_COUNTER = 0

-----------------------------------------------------------------------------
(* Properties of stuck detection across consecutive calls *)

\* C31: when a planning call follows a planning call that reported the same
\* (location, x, y), it returns the stuck recovery, whether or not the call
\* before it was itself a recovery: the recovery leaves the stored fingerprint
\* in place, so every call from the second on is a recovery while the position
\* stays the same.
C31_RecoveryWhilePositionUnchanged ==
    [][ ( /\ call.planned /\ call.fp # None
          /\ call'.planned /\ call'.fp = call.fp ) =>
            /\ _LAST_MAP_STATE = call.fp
            /\ call'.plan.stuck
            /\ call'.plan.by_fingerprint
            /\ call'.plan.shape = "stuck"
            /\ call'.action.items[1] = "B"
            /\ _LAST_MAP_STATE' = call.fp
            /\ _STUCK_COUNTER' = 0 ]_vars

\* C31 witness: a recovery, by the fingerprint comparison, that follows a
\* recovery at the same position
C31_Witness ==
    /\ PlanningCallMade /\ call.had_plan
    /\ call.fp # None /\ call.fp = call.prev_fp
    /\ call.pre._LAST_PRIORITY_USED # None
    /\ call.pre._LAST_PRIORITY_USED[1] = "STUCK_ZIGZAG"
    /\ call.plan.stuck /\ call.plan.by_fingerprint
    /\ call.plan.shape = "stuck"


\* C32: the first planning call of a session, made with no fingerprint stored,
\* is not classified stuck by the fingerprint comparison, whatever the state
\* data (missing data included); it is stuck only if the blocked-neighbour
\* check says so.
C32_FirstCallNotStuckByFingerprint ==
    (PlanningCallMade /\ ~call.had_plan) =>
        /\ call.pre._LAST_MAP_STATE = None
        /\ ~call.plan.by_fingerprint
        /\ call.plan.counter_checked = 0
        /\ call.plan.stuck => SurroundedCheck(call.state_data)

\* the same for first calls whose state data yields a fingerprint
FirstCallWithFingerprintNotStuck ==
    (PlanningCallMade /\ ~call.had_plan /\ call.fp # None) =>
        /\ ~call.plan.by_fingerprint
        /\ call.plan.counter_checked = 0
        /\ call.plan.stuck => SurroundedCheck(call.state_data)

-----------------------------------------------------------------------------
(* Route 104 sessions: navigation calls at Route 104 only, again and again. The
   caller keeps one tile window and one set of collaborator answers for the
   session and either stays at its position (walk "stay": every call after the
   first is a stuck recovery) or changes position with every call (walk "move":
   no call is stuck by the fingerprint comparison). *)

Walks == {"stay", "move"}

\* a call record together with the caller's walk
WithWalk(record, walk) ==
    [f \in DOMAIN record \cup {"walk"} |-> IF f = "walk" THEN walk ELSE record[f]]

\* the position of the next call
NextPosition(state_data, walk) ==
    IF walk = "stay" THEN <<state_data.x, state_data.y>>
    ELSE CHOOSE pos \in Positions : pos # <<state_data.x, state_data.y>>

InitRoute ==
    /\ _LAST_MAP_STATE = None
    /\ _STUCK_COUNTER = 0
    /\ _LAST_PRIORITY_USED = None
    /\ _MOVEMENT_HISTORY = << >>
    /\ _CURRENT_PHASE = 0
    /\ _PHASE_MOVE_COUNT = 0
    /\ ncalls = 0
    /\ \E pos \in Positions, scene \in Scenes, walk \in Walks :
          call = WithWalk(
                    [op |-> "init", location_name |-> "",
                     state_data |-> StateData("Route 104", pos, scene[1], "full"),
                     env |-> scene[2], pre |-> InitialGlobals, action |-> EmptyAction,
                     planned |-> FALSE, tracked |-> FALSE, priority_list |-> << >>,
                     plan |-> NoPlan, advances |-> 0, fp |-> None, had_plan |-> FALSE,
                     prev_fp |-> None, prev_op |-> "init", had_nav |-> FALSE,
                     prev_location |-> ""],
                    walk)

\* the result of get_phase_6_prompt at Route 104 is stored and recorded
RouteReturned(state_data, result) ==
    /\ SetGlobals(result.G)
    /\ call' = WithWalk(CallRecord("navigate", "Route 104", state_data, call.env, result,
                                   CurrentGlobals),
                        call.walk)
    /\ Tick

RouteCall(state_data) ==
    \E result \in {_get_phase_6_navigation(state_data, "Route 104", call.env,
                                          CurrentGlobals)} :
        RouteReturned(state_data, result)

NavigateRoute ==
    \E state_data \in {StateData("Route 104", NextPosition(call.state_data, call.walk),
                                  call.state_data.tiles, "full")} :
        RouteCall(state_data)

NextRoute == NavigateRoute

\* The caller calls again and again. A call is always possible and always changes
\* the move count, so ENABLED <<NavigateRoute>>_vars is TRUE in every state and
\* weak fairness of the call, WF_vars(NavigateRoute), is the call being made
\* infinitely often.
SpecRoute == InitRoute /\ [][NextRoute]_vars /\ []<><<NavigateRoute>>_vars

-----------------------------------------------------------------------------
(* Properties of Route 104 sessions *)

\* C33: under repeated Route 104 calls every call adds at least one move to
\* moves-in-phase (counted from 0 when the call advanced the phase), and the
\* controller eventually reaches the last phase and stays there.
C33_PhaseEscalates ==
    /\ [][ _PHASE_MOVE_COUNT'
             >= (IF call'.advances > 0 THEN 0 ELSE _PHASE_MOVE_COUNT) + 1 ]_vars
    /\ <>[](_CURRENT_PHASE = LastPhase)

\* C33 witness: a Route 104 call in the last phase that was answered with a
\* route and added to moves-in-phase
C33_Witness ==
    /\ Route104Call
    /\ _CURRENT_PHASE = LastPhase
    /\ call.pre._CURRENT_PHASE = LastPhase
    /\ call.plan.shape = "routed"
    /\ _PHASE_MOVE_COUNT > call.pre._PHASE_MOVE_COUNT

\* C34: in a session whose planning calls alternate between two callers standing
\* at two distinct fixed positions (walk "move"), every call is compared with the
\* fingerprint stored by the other caller's call just before it, which differs,
\* so no call is stuck by the fingerprint comparison and the counter stays 0,
\* although the call's fingerprint equals that of the same caller's call before.
C34_AlternatingCallersNeverStuck ==
    [][ (call.walk = "move" /\ call.planned) =>
            /\ _LAST_MAP_STATE = call.fp
            /\ call'.fp # call.fp
            /\ call.had_plan => call'.fp = call.prev_fp
            /\ ~call'.plan.by_fingerprint
            /\ call'.plan.counter_checked = 0
            /\ _LAST_MAP_STATE' = call'.fp ]_vars

\* C34 witness: a late call of an alternating session, made at the position of
\* the same caller's call before and not stuck by the fingerprint comparison
C34_Witness ==
    /\ call.walk = "move"
    /\ Route104Call
    /\ call.had_plan
    /\ call.fp # call.prev_fp
    /\ _CURRENT_PHASE = LastPhase
    /\ _MOVEMENT_HISTORY # << >>
    /\ ~call.plan.by_fingerprint

-----------------------------------------------------------------------------
(* Frame conditions of the two groups of globals *)

\* the phase index, moves-in-phase and the move history stay as they are
PhaseGroupUnchanged ==
    UNCHANGED <<_CURRENT_PHASE, _PHASE_MOVE_COUNT, _MOVEMENT_HISTORY>>

\* C35: (a) a planning call that is not tracked and follows no phase advance
\* (Petalburg City, Rustboro City from phase 1 on) leaves the phase index,
\* moves-in-phase and the move history unchanged, and a tracked one leaves the
\* history and the count exactly as _track_movement makes them from the values
\* at the call (the count from 0 after an advance); (b) the fingerprint and the
\* counter after a planning call are the ones the planner left, the planner having
\* compared with the fingerprint stored before the call, whatever advance or
\* tracking the handler made, and an operation without a planning call leaves
\* both unchanged.
C35_FrameConditions ==
    [][ /\ (call'.planned /\ ~call'.tracked /\ call'.advances = 0) => PhaseGroupUnchanged
        /\ (call'.planned /\ ~call'.tracked) => _MOVEMENT_HISTORY' = _MOVEMENT_HISTORY
        /\ (call'.planned /\ call'.tracked) =>
              [_MOVEMENT_HISTORY |-> _MOVEMENT_HISTORY',
               _PHASE_MOVE_COUNT |-> _PHASE_MOVE_COUNT']
                = _track_movement(call'.action, _MOVEMENT_HISTORY,
                                  IF call'.advances > 0 THEN 0 ELSE _PHASE_MOVE_COUNT)
        /\ call'.planned =>
              /\ _LAST_MAP_STATE' = call'.plan._LAST_MAP_STATE
              /\ _STUCK_COUNTER' = call'.plan._STUCK_COUNTER
              /\ call'.plan.by_fingerprint = (call'.fp = _LAST_MAP_STATE)
        /\ ~call'.planned => UNCHANGED <<_LAST_MAP_STATE, _STUCK_COUNTER>> ]_vars

\* C35 witness: a Rustboro City call in phase 1 whose door search found nothing,
\* so that it planned without tracking, after moves were tracked and a fingerprint
\* stored
C35_Witness ==
    /\ call.op = "navigate"
    /\ call.location_name = "Rustboro City"
    /\ call.pre._CURRENT_PHASE >= 1
    /\ call.planned
    /\ ~call.tracked
    /\ call.pre._PHASE_MOVE_COUNT > 0
    /\ call.pre._MOVEMENT_HISTORY # << >>
    /\ call.pre._LAST_MAP_STATE # None
    /\ _PHASE_MOVE_COUNT = call.pre._PHASE_MOVE_COUNT
    /\ _CURRENT_PHASE = call.pre._CURRENT_PHASE

-----------------------------------------------------------------------------
(* Letter order of compound weighted tokens *)

HorizontalThenVertical ==
    /\ Len(call.letters) = 2
    /\ call.letters[1] \in {"E", "W"}
    /\ call.letters[2] \in {"N", "S"}

\* the entries of a coefficient map, without their order of insertion
Entries(coefficients) == {coefficients[i] : i \in DOMAIN coefficients}

\* C36: a horizontal letter with a weight followed by a vertical letter with a
\* weight (E3N2) parses to the diagonal of the two letters with the map
\* {vertical: w2, horizontal: w1}, as the token with the letters exchanged does.
C36_LetterOrderIrrelevant ==
    (call.op = "parsed" /\ HorizontalThenVertical) =>
        /\ call.result.direction = DiagonalOf(call.letters[2], call.letters[1])
        /\ Entries(call.result.coefficients)
             = {<<CardinalOf(call.letters[1]), WeightOf(call.weights[1])>>,
                <<CardinalOf(call.letters[2]), WeightOf(call.weights[2])>>}

\* what holds of such a token: the coefficient map is that of the exchanged token
\* and the direction is the token itself
HorizontalFirstKeepsToken ==
    (call.op = "parsed" /\ HorizontalThenVertical) =>
        /\ call.result.direction = call.token
        /\ call.result.direction \notin DirectionNames
        /\ Entries(call.result.coefficients)
             = {<<CardinalOf(call.letters[1]), WeightOf(call.weights[1])>>,
                <<CardinalOf(call.letters[2]), WeightOf(call.weights[2])>>}

-----------------------------------------------------------------------------
(* The dead-end test at the border of the grid *)

\* the neighbour offset in the travel direction and the two lateral ones
AheadOffset(direction) ==
    <<0 - OppositeOffset(direction)[1], 0 - OppositeOffset(direction)[2]>>

LateralOffsets(direction) == ForwardOffsets(direction) \ {AheadOffset(direction)}

\* the neighbour of the tested cell at the offset lies inside the grid
NeighbourInside(o) == InGrid(call.grid, call.pos[1] + o[1], call.pos[2] + o[2])

\* the neighbour at the offset is one the test counts as walkable: inside the grid
\* and not a blocked, water or blank tile
NeighbourCounted(o) ==
    /\ NeighbourInside(o)
    /\ GridAt(call.grid, call.pos[1] + o[1], call.pos[2] + o[2]) \notin DeadEndBlocking

\* the tested cell lies on the border of the grid in the travel direction
OnBorderAhead ==
    /\ call.op = "dead_end"
    /\ InGrid(call.grid, call.pos[1], call.pos[2])
    /\ ~NeighbourInside(AheadOffset(call.direction))

\* ... and in a corner: a lateral neighbour is outside the grid too
InCornerAhead ==
    /\ OnBorderAhead
    /\ \E o \in LateralOffsets(call.direction) : ~NeighbourInside(o)

\* C37: a cell on the border of the grid in the travel direction is accepted (not
\* a dead end) only if both of its lateral neighbours are inside the grid and
\* counted as walkable by the test, which is then also sufficient; a cell in a
\* corner facing the travel direction is a dead end.
C37_BorderAndCorner ==
    /\ OnBorderAhead =>
          (~call.dead_end <=> \A o \in LateralOffsets(call.direction) : NeighbourCounted(o))
    /\ InCornerAhead => call.dead_end

\* C37 witness: a top-row cell tested for NORTH and accepted, its two lateral
\* neighbours being inside the grid
C37_Witness ==
    /\ OnBorderAhead
    /\ call.direction = NORTH
    /\ call.pos[2] = 0
    /\ ~call.dead_end
    /\ \A o \in LateralOffsets(NORTH) : NeighbourCounted(o)

\* a corner cell facing the travel direction was tested and rejected
CornerRejected == InCornerAhead /\ call.dead_end

-----------------------------------------------------------------------------
(* The requests made to the path primitive: the goal selector and the door and
   stairs helpers on their own, on a tile window and a marker position drawn *)

\* stairs_positions of _handle_route_104_south, in row-major order from cell n on
RECURSIVE StairsPositions(_, _)
StairsPositions(grid, n) ==
    LET width == Len(grid[1])
    IN  IF n >= width * Len(grid) THEN << >>
        ELSE (IF GridAt(grid, n % width, n \div width) = "S"
              THEN << <<n % width, n \div width>> >> ELSE << >>)
             \o StairsPositions(grid, n + 1)

\* how far around stairs water is looked for, and the rows in which stairs are
\* rejected
WaterReach == 5

TopRows == 2

\* lines 1346-1361: stairs below the top rows without water within reach
ValidStairs(grid, stairs) ==
    /\ stairs[2] > TopRows
    /\ ~\E dx \in (0 - WaterReach)..WaterReach, dy \in (0 - WaterReach)..WaterReach :
          /\ InGrid(grid, stairs[1] + dx, stairs[2] + dy)
          /\ GridAt(grid, stairs[1] + dx, stairs[2] + dy) = "W"

\* lines 1314-1371 of _handle_route_104_south: whether a request is made to the
\* path primitive, and the start and goal it passes
StairsRequest(grid) ==
    LET player == FindPlayer(grid)
        valid_stairs == SelectSeq(StairsPositions(grid, 0),
                                  LAMBDA stairs : ValidStairs(grid, stairs))
    IN  IF player = << >> \/ valid_stairs = << >>
        THEN [made |-> FALSE, start |-> << >>, goal |-> << >>]
        ELSE LET by_column == [i \in 1..Len(valid_stairs) |-> valid_stairs[i][1]]
                 player_y_idx == Len(grid) - 1 - player[2]
             IN  [made |-> TRUE, start |-> <<player[1], player_y_idx>>,
                  goal |-> FirstMin(valid_stairs, by_column)]

\* the route length above which _handle_route_104_south follows the route
FarFromStairs == 10

NearStairsAction ==
    ActionString(<<"plain">>, <<"UP", "UP", "UP", "RIGHT", "RIGHT", "RIGHT", "A">>)

\* lines 1373-1380, found being what astar_pathfind answered
StairsRoute(found) ==
    IF ~found.fault /\ Len(found.path) > FarFromStairs
    THEN ActionString(<<"plain">>, Append(found.path \o Repeat("UP", 8), "A"))
    ELSE NearStairsAction

\* _handle_route_104_south for a state with tiles, the path primitive answering
StairsRequested(request, grid, env) ==
    IF ~request.made
    THEN IF FindPlayer(grid) = << >>
         THEN ActionString(<<"plain">>, <<"UP", "RIGHT", "A">>)
         ELSE NearStairsAction
    ELSE StairsRoute(astar_pathfind(grid, request.start, request.goal, env))

_handle_route_104_south(state_data, env) ==
    LET grid == format_map_grid(state_data.tiles, env)
    IN  IF grid = << >> THEN ActionString(<<"plain">>, <<"UP", "RIGHT", "A">>)
        ELSE StairsRequested(StairsRequest(grid), grid, env)

\* lines 320-360 of _path_to_direction: the first request of the goal selector
SelectorRequest(grid, direction) ==
    LET player == FindPlayer(grid)
    IN  IF player = << >> THEN [made |-> FALSE, start |-> << >>, goal |-> << >>]
        ELSE LET candidates == SortByScore(Candidates(grid, direction, player, 0))
             IN  IF Len(candidates) = 0
                 THEN [made |-> FALSE, start |-> << >>, goal |-> << >>]
                 ELSE [made |-> TRUE, start |-> player, goal |-> candidates[1][2]]

\* an 8-row window with stairs in its bottom row and water in its top row, out of
\* reach of the stairs
StairsMap == WithTile(WithTile(TallMap, 8, 1, "S"), 1, 5, "W")

\* the windows of the goal selector, the one with far water, and an open one with
\* stairs and water within reach
RequestTiles ==
    GoalTiles \cup {StairsMap, WithTile(WithTile(OpenMap, 5, 1, "S"), 1, 5, "W")}

NoRequest == [made |-> FALSE, start |-> << >>, goal |-> << >>]

RequestEnv(marker) ==
    [builder |-> "ok", astar |-> "route", faulty |-> {}, marker |-> marker]

InitRequest ==
    /\ _LAST_MAP_STATE = None
    /\ _STUCK_COUNTER = 0
    /\ _LAST_PRIORITY_USED = None
    /\ _MOVEMENT_HISTORY = << >>
    /\ _CURRENT_PHASE = 0
    /\ _PHASE_MOVE_COUNT = 0
    /\ ncalls = 0
    /\ \E tiles \in RequestTiles, marker \in Markers :
           call = [op |-> "input", tiles |-> tiles, env |-> RequestEnv(marker),
                   grid |-> format_map_grid(tiles, RequestEnv(marker)),
                   player |-> FindPlayer(format_map_grid(tiles, RequestEnv(marker))),
                   request |-> NoRequest, action |-> EmptyAction]

\* _path_to_direction(state_data, direction, location_name)
SelectorCall ==
    /\ call.op = "input"
    /\ \E direction \in DirectionNames :
          call' = [call EXCEPT
                     !.op = "selector",
                     !.request = SelectorRequest(call.grid, direction),
                     !.action = ActionString(<<"plain">>,
                                   _path_to_direction(StateData("", <<0, 0>>, call.tiles,
                                                                "full"),
                                                      direction, call.env).path)]
    /\ ncalls' = ncalls + 1
    /\ UnchangedGlobals

\* _find_door_and_path(state_data, location_name, door_filter)
DoorCall ==
    /\ call.op = "input"
    /\ \E door_filter \in {"any", "south"} :
          call' = [call EXCEPT
                     !.op = "door",
                     !.request = DoorRequest(call.grid, door_filter),
                     !.action = _find_door_and_path(StateData("", <<0, 0>>, call.tiles,
                                                              "full"),
                                                    door_filter, << >>, call.env)]
    /\ ncalls' = ncalls + 1
    /\ UnchangedGlobals

\* _handle_route_104_south(state_data, objectives, location_name)
StairsCall ==
    /\ call.op = "input"
    /\ call' = [call EXCEPT
                  !.op = "stairs",
                  !.request = StairsRequest(call.grid),
                  !.action = _handle_route_104_south(StateData("", <<0, 0>>, call.tiles,
                                                               "full"),
                                                     call.env)]
    /\ ncalls' = ncalls + 1
    /\ UnchangedGlobals

NextRequest == SelectorCall \/ DoorCall \/ StairsCall

SpecRequest == InitRequest /\ [][NextRequest]_vars

-----------------------------------------------------------------------------
(* Properties of the requests *)

\* C38: every request to the path primitive, of the goal selector and of the door
\* and stairs helpers, passes as start the position <<x, row index>> at which the
\* player marker was found on the grid.
C38_StartIsMarkerPosition ==
    (call.op \in {"selector", "door", "stairs"} /\ call.request.made) =>
        call.request.start = call.player

\* the goal selector passes the marker's position
SelectorStartIsMarkerPosition ==
    (call.op = "selector" /\ call.request.made) => call.request.start = call.player

\* the door and stairs helpers pass the marker's column and the row index counted
\* from the bottom row
HelperStartIsFlipped ==
    (call.op \in {"door", "stairs"} /\ call.request.made) =>
        call.request.start = <<call.player[1], Len(call.grid) - 1 - call.player[2]>>

\* a helper made a request with the marker off the middle row
HelperRequestOffCentre ==
    /\ call.op \in {"door", "stairs"}
    /\ call.request.made
    /\ 2 * call.player[2] # Len(call.grid) - 1

-----------------------------------------------------------------------------
(* Route 104 sessions with a log: the sessions above, in which the caller may
   also reset the phases, together with the list of all moves tracked since the
   last reset (log), kept until it is longer than LogCap *)

LogCap == 120

\* a call record together with the log
WithLog(record, log) ==
    [f \in DOMAIN record \cup {"log"} |-> IF f = "log" THEN log ELSE record[f]]

InitHistory ==
    /\ _LAST_MAP_STATE = None
    /\ _STUCK_COUNTER = 0
    /\ _LAST_PRIORITY_USED = None
    /\ _MOVEMENT_HISTORY = << >>
    /\ _CURRENT_PHASE = 0
    /\ _PHASE_MOVE_COUNT = 0
    /\ ncalls = 0
    /\ \E pos \in Positions, scene \in Scenes, walk \in Walks :
          call = WithLog(WithWalk(
                    [op |-> "init", location_name |-> "",
                     state_data |-> StateData("Route 104", pos, scene[1], "full"),
                     env |-> scene[2], pre |-> InitialGlobals, action |-> EmptyAction,
                     planned |-> FALSE, tracked |-> FALSE, priority_list |-> << >>,
                     plan |-> NoPlan, advances |-> 0, fp |-> None, had_plan |-> FALSE,
                     prev_fp |-> None, prev_op |-> "init", had_nav |-> FALSE,
                     prev_location |-> ""],
                    walk), << >>)

\* the moves _track_movement takes from the action of a tracked call
LoggedMoves(result) ==
    IF result.tracked THEN TrackedMovements(SplitPieces(result.action), 1) ELSE << >>

\* a Route 104 call returned result; the moves tracked are added to the log
HistoryReturned(state_data, result) ==
    /\ SetGlobals(result.G)
    /\ call' = WithLog(WithWalk(CallRecord("navigate", "Route 104", state_data, call.env,
                                           result, CurrentGlobals),
                                call.walk),
                       call.log \o LoggedMoves(result))
    /\ Tick

NavigateHistory ==
    /\ Len(call.log) <= LogCap
    /\ \E state_data \in {StateData("Route 104",
                                    NextPosition(call.state_data, call.walk),
                                    call.state_data.tiles, "full")} :
          \E result \in {_get_phase_6_navigation(state_data, "Route 104", call.env,
                                                 CurrentGlobals)} :
              HistoryReturned(state_data, result)

\* the caller resets the phases after moves were tracked: _reset_phases()
ResetHistory ==
    /\ call.log # << >>
    /\ SetGlobals(_reset_phases(CurrentGlobals))
    /\ call' = WithLog(WithWalk(CallRecord("reset", "", call.state_data, call.env,
                                           PlainResult(EmptyAction,
                                                       _reset_phases(CurrentGlobals), 0),
                                           CurrentGlobals),
                                call.walk),
                       << >>)
    /\ Tick

NextHistory == NavigateHistory \/ ResetHistory

SpecHistory == InitHistory /\ [][NextHistory]_vars

-----------------------------------------------------------------------------
(* Properties of the move history *)

\* the last min(n, Len(log)) entries of log, in their order
Recent(log, n) ==
    LET kept == IF Len(log) < n THEN Len(log) ELSE n
    IN  [i \in 1..kept |-> log[Len(log) - kept + i]]

\* C39: the move history holds at most 100 moves and is the last min(100, total)
\* of the moves tracked since the last phase reset, in the order they were issued.
C39_HistoryIsRecentWindow ==
    /\ Len(_MOVEMENT_HISTORY) <= HistoryWindow
    /\ _MOVEMENT_HISTORY = Recent(call.log, HistoryWindow)

\* C39 witness: more than 100 moves were tracked since the last reset, the history
\* holds 100 of them and its oldest move is not the oldest one tracked
C39_Witness ==
    /\ call.tracked
    /\ Len(call.log) > HistoryWindow
    /\ Len(_MOVEMENT_HISTORY) = HistoryWindow
    /\ _MOVEMENT_HISTORY[1] # call.log[1]
    /\ _MOVEMENT_HISTORY[HistoryWindow] = call.log[Len(call.log)]

\* moves were tracked again after a reset that followed tracked moves
TrackedAfterReset ==
    /\ call.tracked
    /\ call.prev_op = "reset"
    /\ call.log # << >>
    /\ _MOVEMENT_HISTORY = call.log

====
